---------------------------- MODULE Spec2Model ----------------------------
(***************************************************************************)
(* Thread processing pipeline: entity resolution (resolver.py), the        *)
(* analysis job (analysis_job.py) and the analysis engine (analyzer.py),   *)
(* over a record store whose tables are the variables below.               *)
(*                                                                         *)
(* Text is a sequence of one-character strings, so that lower-casing,      *)
(* trimming, searching and splitting are computed, not assumed.            *)
(***************************************************************************)
EXTENDS Integers, Sequences, FiniteSets, TLC

VARIABLES
    stages,            \* thread_processing_stages: user -> thread -> current_stage or NoRecord
    threads,           \* threads: user -> thread -> row or NoRow
    messages,          \* thread_messages: user -> thread -> rows in ascending sent_date order
    profiles,          \* profiles: user -> email text or None
    companies,         \* companies rows
    customers,         \* customers rows
    participants,      \* thread_participants rows
    links,             \* thread_company_link rows
    next_steps,        \* next_steps rows
    feature_requests,  \* feature_requests rows
    assignments,       \* next_step_assignments rows
    jobs,              \* analyze-thread tasks dispatched to the job transport, not yet run
    writes,            \* log of every stage write: thread, stage before, stage written, writer
    now,               \* the clock read by datetime.now()
    ops,               \* number of pipeline operations performed so far
    resolveRep,        \* what the last resolve_thread_entities call returned
    prevResolve,       \* what the resolve_thread_entities call before it returned
    analyzeRep,        \* what the last analyze_thread call returned
    tinput,            \* transcript check: the selected message list
    toutput,           \* transcript check: the transcript built from it
    pc,                \* concurrent analysis: run -> position
    loc                \* concurrent analysis: run -> local variables

vars == << stages, threads, messages, profiles, companies, customers, participants,
           links, next_steps, feature_requests, assignments, jobs, writes, now, ops,
           resolveRep, prevResolve, analyzeRep, tinput, toutput, pc, loc >>

\* Python's None for a text value: a sequence, so that it compares with text
None == << "None" >>
\* a thread with no thread_processing_stages row
NoRecord == "no_record"
\* SQL NULL for a timestamp or an id
Null == -1

\* Statement sequencing, "x = v" followed by F(x): v is computed once
Then(v, F(_)) == CHOOSE y \in { F(x) : x \in { v } } : TRUE

(***************************************************************************)
(* Text helpers: Python's str.lower, str.strip, str.find, str.split.       *)
(***************************************************************************)
UpperCase == << "A","B","C","D","E","F","G","H","I","J","K","L","M",
                "N","O","P","Q","R","S","T","U","V","W","X","Y","Z" >>
LowerCase == << "a","b","c","d","e","f","g","h","i","j","k","l","m",
                "n","o","p","q","r","s","t","u","v","w","x","y","z" >>

LowerChar(c) ==
    IF \E i \in 1..Len(UpperCase) : UpperCase[i] = c
    THEN LowerCase[CHOOSE i \in 1..Len(UpperCase) : UpperCase[i] = c]
    ELSE c

Lower(s) == [i \in 1..Len(s) |-> LowerChar(s[i])]

Whitespace == {" ", "\t", "\n"}

RECURSIVE LStrip(_)
LStrip(s) == IF s # <<>> /\ Head(s) \in Whitespace THEN LStrip(Tail(s)) ELSE s

RECURSIVE RStrip(_)
RStrip(s) ==
    IF s # <<>> /\ s[Len(s)] \in Whitespace THEN RStrip(SubSeq(s, 1, Len(s) - 1)) ELSE s

Strip(s) == RStrip(LStrip(s))

Contains(s, c) == \E i \in 1..Len(s) : s[i] = c

\* str.find: 0-based index of the first occurrence (the caller checks Contains first)
Find(s, c) == (CHOOSE i \in 1..Len(s) : s[i] = c /\ \A j \in 1..(i - 1) : s[j] # c) - 1

\* s[start:end] for 0 <= start, 0 <= end
Slice(s, start, end) == SubSeq(s, start + 1, end)

\* str.split(c): the pieces between occurrences of c
RECURSIVE Split(_, _)
Split(s, c) ==
    IF ~Contains(s, c) THEN << s >>
    ELSE LET i == Find(s, c)
         IN << SubSeq(s, 1, i) >> \o Split(SubSeq(s, i + 2, Len(s)), c)

(***************************************************************************)
(* Identity extraction (resolver.py).                                      *)
(***************************************************************************)
\* extract_email_from_address: None for a falsy address
extract_email_from_address(address) ==
    IF address = None \/ address = <<>> THEN None
    ELSE IF Contains(address, "<") /\ Contains(address, ">")
         THEN Strip(Slice(address, Find(address, "<") + 1, Find(address, ">")))
         ELSE Strip(address)

\* the loop over a decoded list of address strings: the lower-cased addresses of
\* the items whose extraction is not empty
EmailsOfList(items) ==
    { Lower(extract_email_from_address(items[i])) :
        i \in { j \in 1..Len(items) :
                  extract_email_from_address(items[j]) \notin {None, <<>>} } }

\* A JSON value as Python sees it: None, a list of strings, a str, or another
\* type (a dict, a number)
JsonNone == [ type |-> "none" ]
JsonOther == [ type |-> "other" ]
JsonList(items) == [ type |-> "list", items |-> items ]
JsonStr(text) == [ type |-> "str", text |-> text ]

Digits == { "0", "1", "2", "3", "4", "5", "6", "7", "8", "9" }

\* a JSON string literal without escapes: "..."
IsJsonString(s) ==
    /\ Len(s) >= 2
    /\ s[1] = "\""
    /\ s[Len(s)] = "\""
    /\ \A i \in 2..(Len(s) - 1) : s[i] \notin { "\"", "\\" }

\* json.loads(text) for arrays of strings, strings and numbers: ok is FALSE
\* when it raises JSONDecodeError
json_loads(text) ==
    LET t == Strip(text)
        inner == SubSeq(t, 2, Len(t) - 1)
        parts == Split(inner, ",")
    IN IF Len(t) >= 2 /\ t[1] = "[" /\ t[Len(t)] = "]"
       THEN IF Strip(inner) = <<>> THEN [ ok |-> TRUE, kind |-> "list", items |-> <<>> ]
            ELSE IF \A i \in 1..Len(parts) : IsJsonString(Strip(parts[i]))
            THEN [ ok |-> TRUE, kind |-> "list",
                   items |-> [ i \in 1..Len(parts) |->
                                 SubSeq(Strip(parts[i]), 2, Len(Strip(parts[i])) - 1) ] ]
            ELSE [ ok |-> FALSE, kind |-> "error", items |-> <<>> ]
       ELSE IF IsJsonString(t) THEN [ ok |-> TRUE, kind |-> "str", items |-> <<>> ]
       ELSE IF t # <<>> /\ \A i \in 1..Len(t) : t[i] \in Digits
       THEN [ ok |-> TRUE, kind |-> "number", items |-> <<>> ]
       ELSE [ ok |-> FALSE, kind |-> "error", items |-> <<>> ]

\* extract_emails_from_json(json_data)
extract_emails_from_json(json_data) ==
    IF json_data.type = "none" THEN {}
    ELSE IF json_data.type = "list" THEN EmailsOfList(json_data.items)
    ELSE IF json_data.type = "str"
    THEN IF json_data.text = <<>> THEN {}
         ELSE IF json_loads(json_data.text).ok
         THEN IF json_loads(json_data.text).kind = "list"
              THEN EmailsOfList(json_loads(json_data.text).items)
              ELSE {}
         ELSE \* "If parsing fails, treat as single email"
              IF extract_email_from_address(json_data.text) \in {None, <<>>} THEN {}
              ELSE { Lower(extract_email_from_address(json_data.text)) }
    ELSE {}

extract_domain_from_email(email) ==
    IF ~Contains(email, "@") THEN <<>> ELSE Lower(Split(email, "@")[2])

extract_local_part_from_email(email) ==
    IF ~Contains(email, "@") THEN email ELSE Lower(Split(email, "@")[1])

(***************************************************************************)
(* The record store.  Store bundles the tables so that an operation is an  *)
(* operator from a store to a store and a report.                          *)
(***************************************************************************)
Store ==
    [ stages |-> stages, threads |-> threads, messages |-> messages,
      profiles |-> profiles, companies |-> companies, customers |-> customers,
      participants |-> participants, links |-> links, next_steps |-> next_steps,
      feature_requests |-> feature_requests, assignments |-> assignments,
      jobs |-> jobs, writes |-> writes, now |-> now ]

SetStore(S) ==
    /\ stages' = S.stages
    /\ threads' = S.threads
    /\ messages' = S.messages
    /\ profiles' = S.profiles
    /\ companies' = S.companies
    /\ customers' = S.customers
    /\ participants' = S.participants
    /\ links' = S.links
    /\ next_steps' = S.next_steps
    /\ feature_requests' = S.feature_requests
    /\ assignments' = S.assignments
    /\ jobs' = S.jobs
    /\ writes' = S.writes
    /\ now' = S.now

\* table("thread_processing_stages").update({"current_stage": stage})
\*   .in_("thread_id", ts).eq("user_id", u): only existing rows change
\* A faulty stage write that creates the record of a thread that has none (an
\* upsert): the fault C37 must detect
UpdateStages_Upsert(S, u, ts, stage, by) ==
    [ S EXCEPT
        !.stages = [ S.stages EXCEPT ![u] =
                       [ t \in DOMAIN S.stages[u] |->
                           IF t \in ts THEN stage ELSE S.stages[u][t] ] ],
        !.writes = S.writes \cup
                     { [ thread |-> t, user |-> u, from |-> S.stages[u][t],
                         to |-> stage, by |-> by ] : t \in ts } ]

UpdateStages(S, u, ts, stage, by) ==
    LET hit == { t \in ts : S.stages[u][t] # NoRecord }
    IN [ S EXCEPT
           !.stages = [ S.stages EXCEPT ![u] =
                          [ t \in DOMAIN S.stages[u] |->
                              IF t \in hit THEN stage ELSE S.stages[u][t] ] ],
           !.writes = S.writes \cup
                        { [ thread |-> t, user |-> u, from |-> S.stages[u][t],
                            to |-> stage, by |-> by ] : t \in hit } ]

(***************************************************************************)
(* Analysis engine (analyzer.py).  A message body is modelled by its       *)
(* length; a transcript by the sequence of its lines, a line by the id of  *)
(* the message it renders (Marker for the truncation marker).              *)
(***************************************************************************)
TokenLimit == 100000
Marker == 0
\* a sent_date on which parsing or comparison raises
BadDate == -2

\* msg.get("body_text", "") or msg.get("body_html", "")
Body(m) == IF m.body_text # 0 THEN m.body_text ELSE m.body_html

RECURSIVE SumBodies(_)
SumBodies(ms) == IF ms = <<>> THEN 0 ELSE Body(Head(ms)) + SumBodies(Tail(ms))

\* len(" ".join([...]))
JoinedLen(ms) == IF ms = <<>> THEN 0 ELSE SumBodies(ms) + (Len(ms) - 1)

estimate_tokens(len) == len \div 4

\* messages[:k]
PyHead(ms, k) == SubSeq(ms, 1, k)

\* messages[-k:]; Python reads messages[-0:] as messages[0:], the whole list
PyTail(ms, k) == IF k = 0 THEN ms ELSE SubSeq(ms, Len(ms) - k + 1, Len(ms))

\* one transcript line per message with a non-empty body
RECURSIVE construct_transcript(_)
construct_transcript(ms) ==
    IF ms = <<>> THEN <<>>
    ELSE (IF Body(Head(ms)) # 0 THEN << Head(ms).message_id >> ELSE <<>>)
         \o construct_transcript(Tail(ms))

\* int(total_messages * 0.2)
first_20_percent(ms) == Len(ms) \div 5

\* Steps 2 and 3 of analyze_thread: the transcript sent to the LLM
BuildTranscript(ms) ==
    IF estimate_tokens(JoinedLen(ms)) > TokenLimit
    THEN construct_transcript(PyHead(ms, first_20_percent(ms)))
         \o << Marker >>
         \o construct_transcript(PyTail(ms, first_20_percent(ms)))
    ELSE construct_transcript(ms)

\* A faulty filter test that also takes a message sent exactly at last_analyzed_at:
\* the fault C7 must detect
IsNewMessage_NotStrict(m, last_analyzed_at) ==
    m.sent_date < 0 \/ m.sent_date >= last_analyzed_at

\* Step 1.5: the incremental filter's test of one message
IsNewMessage(m, last_analyzed_at) ==
    IF m.sent_date = Null THEN TRUE
    ELSE IF m.sent_date = BadDate THEN TRUE
    ELSE m.sent_date > last_analyzed_at

\* A faulty filter that drops a message whose sent_date is missing or cannot be
\* compared: the fault C28 must detect
FilterNew_DropsUndated(ms, last_analyzed_at) ==
    LET Test(m) == m.sent_date >= 0 /\ m.sent_date > last_analyzed_at
    IN SelectSeq(ms, Test)

FilterNew(ms, last_analyzed_at) ==
    LET Test(m) == IsNewMessage(m, last_analyzed_at) IN SelectSeq(ms, Test)

\* .order("sent_date", desc=False) on the rows of a thread: the store holds the
\* rows that have a sent_date in ascending order of it; rows without one come last
OrderBySentDate(ms) ==
    LET HasDate(m) == m.sent_date # Null
        NoDate(m) == m.sent_date = Null
    IN SelectSeq(ms, HasDate) \o SelectSeq(ms, NoDate)

\* description.lower().strip()
Normalize(text) == Strip(Lower(text))

\* check_next_step_exists: rows are selected by thread_id alone
check_next_step_exists(rows, thread_id, description) ==
    IF description = <<>> \/ description = None THEN FALSE
    ELSE \E r \in rows :
           /\ r.thread_id = thread_id
           /\ r.description # <<>>
           /\ Normalize(r.description) = Normalize(description)

\* check_feature_request_exists
check_feature_request_exists(rows, thread_id, title) ==
    IF title = <<>> \/ title = None THEN FALSE
    ELSE \E r \in rows :
           /\ r.thread_id = thread_id
           /\ r.title # <<>>
           /\ Normalize(r.title) = Normalize(title)

\* the loop over analysis["next_steps"]: the texts that pass the duplicate check
NextStepsToInsert(rows, thread_id, items) ==
    LET Keep(it) == /\ it.text # <<>>
                    /\ it.text # None
                    /\ ~check_next_step_exists(rows, thread_id, it.text)
    IN SelectSeq(items, Keep)

\* the loop over analysis["feature_requests"], with the urgency validated
\* A faulty validation that stores the urgency as extracted: the fault C31 must
\* detect
ValidUrgency_Unchecked(urgency) == urgency

\* "Validate urgency": a value outside the list becomes Low
ValidUrgency(urgency) ==
    IF urgency \in { "Low", "Medium", "High" } THEN urgency ELSE "Low"

FeatureRequestsToInsert(rows, thread_id, items) ==
    LET Keep(it) == /\ it.title # <<>>
                    /\ it.title # None
                    /\ ~check_feature_request_exists(rows, thread_id, it.title)
        kept == SelectSeq(items, Keep)
    IN [ i \in 1..Len(kept) |->
           [ title |-> kept[i].title,
             urgency |-> ValidUrgency(kept[i].urgency) ] ]

\* table("next_steps").insert(next_steps_to_insert): the store numbers the rows
NewNextStepRows(rows, u, t, items) ==
    { [ step_id |-> Cardinality(rows) + i, thread_id |-> t, user_id |-> u,
        description |-> items[i].text ] : i \in 1..Len(items) }

\* table("feature_requests").insert(feature_requests_to_insert)
NewFeatureRequestRows(rows, u, t, items) ==
    { [ fr_id |-> Cardinality(rows) + i, thread_id |-> t, user_id |-> u,
        title |-> items[i].title, urgency |-> items[i].urgency ] : i \in 1..Len(items) }

\* A faulty fan-out over the participants of every thread: the fault C32 must
\* detect
NewAssignments_AllParticipants(S, u, t, steps) ==
    { [ next_step_id |-> st.step_id, customer_id |-> q.customer_id ] :
        st \in steps, q \in S.participants }

\* the assignments fanned out for freshly inserted steps
NewAssignments(S, u, t, steps) ==
    LET customer_ids == { p.customer_id : p \in { q \in S.participants :
                            q.thread_id = t /\ q.user_id = u } }
    IN { [ next_step_id |-> st.step_id, customer_id |-> c ] :
           st \in steps, c \in customer_ids }

NoAnalysis ==
    [ called |-> FALSE, user |-> "", thread |-> "", success |-> FALSE, skipped |-> FALSE,
      mode |-> "none", llm_called |-> FALSE, errors |-> 0, selected |-> <<>>,
      transcript |-> <<>>, new_steps |-> {}, new_frs |-> {}, health |-> {},
      last_analyzed_at |-> Null, prior |-> Null, n_after |-> 0, n_undated |-> 0,
      n_msgs |-> 0, pre_stage |-> "", post_stage |-> "", fault |-> "none",
      failure |-> "none", timeline_summary |-> <<>>, problem_statement |-> <<>> ]

\* A faulty update that leaves last_analyzed_at alone: the fault C38 must detect
ThreadUpdate_NoStamp(row, llm, at) ==
    [ row EXCEPT !.summary = IF llm.timeline_summary # <<>> THEN llm.timeline_summary
                             ELSE IF llm.problem_statement # <<>> THEN llm.problem_statement
                             ELSE @,
                 !.sentiment_score = IF llm.sentiment_score = <<>> THEN @
                                     ELSE llm.sentiment_score ]

\* A faulty update that stamps last_analyzed_at only when the response filled a
\* column: the fault C29 must detect
ThreadUpdate_StampIfPopulated(row, llm, at) ==
    [ row EXCEPT !.summary = IF llm.timeline_summary # <<>> THEN llm.timeline_summary
                             ELSE IF llm.problem_statement # <<>> THEN llm.problem_statement
                             ELSE @,
                 !.sentiment_score = IF llm.sentiment_score = <<>> THEN @
                                     ELSE llm.sentiment_score,
                 !.last_analyzed_at = IF /\ llm.timeline_summary = <<>>
                                         /\ llm.problem_statement = <<>>
                                         /\ llm.sentiment_score = <<>>
                                      THEN @ ELSE at ]

\* threads_update_clean applied to the threads row: a key whose value is None is
\* dropped, so the column keeps its old value
ThreadUpdate(row, llm, at) ==
    LET summary == IF llm.timeline_summary # <<>> THEN llm.timeline_summary
                   ELSE IF llm.problem_statement # <<>> THEN llm.problem_statement
                   ELSE None
    IN [ row EXCEPT !.summary = IF summary = None THEN @ ELSE summary,
                    !.sentiment_score = IF llm.sentiment_score = <<>> THEN @
                                        ELSE llm.sentiment_score,
                    !.last_analyzed_at = at ]

\* The store failures a run can meet: the duplicate-check query raises
\* ("ns_check"), the next_steps insert raises ("ns_insert"), the assignments insert
\* raises ("assignments"), every thread_processing_stages write raises
\* ("stage_write"), the thread_company_link query of the health-score step raises
\* ("health_lookup"), every recalculate_company_health_score call raises
\* ("health_rpc")
Faults == { "none", "ns_check", "ns_insert", "assignments", "stage_write",
            "health_lookup", "health_rpc" }

\* A faulty loop that a failing recalculation ends: the fault C33 must detect
HealthAttempts_StopAtFailure(company_ids, fault) ==
    IF fault = "health_lookup" THEN {}
    ELSE IF fault = "health_rpc" /\ company_ids # {}
    THEN { CHOOSE c \in company_ids : \A d \in company_ids : c <= d }
    ELSE company_ids

\* the companies for which the health-score step calls the recalculation: the
\* companies linked to the thread, none if the link query raises; a call that
\* raises is logged and the loop goes on
HealthAttempts(company_ids, fault) ==
    IF fault = "health_lookup" THEN {} ELSE company_ids

\* A faulty except branch that records the error and leaves the stage alone: the
\* fault C12 must detect
AnalyzeFailed_NoStageWrite(S, u, t, rep, failure) ==
    [ S |-> S, rep |-> [ rep EXCEPT !.success = FALSE, !.errors = 1, !.failure = failure ] ]

\* A faulty except branch that also stamps the thread as analysed: the fault C39
\* must detect
AnalyzeFailed_Stamps(S, u, t, rep, failure) ==
    [ S |-> [ UpdateStages(S, u, {t}, "failed", "analyze") EXCEPT
                !.threads[u][t].last_analyzed_at = S.now ],
      rep |-> [ rep EXCEPT !.success = FALSE, !.errors = 1, !.failure = failure ] ]

\* A faulty except branch whose write of failed is not guarded: when it raises,
\* the caller gets the exception of the write and no report of the first error:
\* the fault C34 must detect
AnalyzeFailed_Unguarded(S, u, t, rep, failure) ==
    IF rep.fault = "stage_write"
    THEN [ S |-> S, rep |-> [ rep EXCEPT !.success = FALSE, !.errors = 0,
                                         !.failure = "raised" ] ]
    ELSE [ S |-> UpdateStages(S, u, {t}, "failed", "analyze"),
           rep |-> [ rep EXCEPT !.success = FALSE, !.errors = 1, !.failure = failure ] ]

\* the except branch of analyze_thread: record the error, write stage failed; a
\* failure of that write is swallowed
AnalyzeFailed(S, u, t, rep, failure) ==
    [ S |-> IF rep.fault = "stage_write" THEN S
            ELSE UpdateStages(S, u, {t}, "failed", "analyze"),
      rep |-> [ rep EXCEPT !.success = FALSE, !.errors = 1, !.failure = failure ] ]

\* the loop over analysis["next_steps"] when the check query may raise: the check
\* then answers False for every item
CheckedNextSteps(S, t, llm) ==
    IF llm.fault = "ns_check"
    THEN NextStepsToInsert({}, t, llm.next_steps)
    ELSE NextStepsToInsert(S.next_steps, t, llm.next_steps)

\* Step 5 from the feature requests on: insert them, write stage completed
SaveFeatureRequests(S, u, t, llm, rep) ==
    Then(FeatureRequestsToInsert(S.feature_requests, t, llm.feature_requests), LAMBDA fr :
    Then(NewFeatureRequestRows(S.feature_requests, u, t, fr), LAMBDA frRows :
    Then([ S EXCEPT !.feature_requests = @ \cup frRows ], LAMBDA S4 :
      IF llm.fault = "stage_write"
      THEN AnalyzeFailed(S4, u, t, rep, "stage_write")
      ELSE [ S |-> UpdateStages(S4, u, {t}, "completed", "analyze"),
             rep |-> [ rep EXCEPT !.success = TRUE,
                                  !.new_frs = { r.fr_id : r \in frRows },
                                  !.health = HealthAttempts(
                                      { l.company_id : l \in { k \in S4.links :
                                                                 k.thread_id = t } },
                                      llm.fault),
                                  !.last_analyzed_at = S.now,
                                  !.timeline_summary = llm.timeline_summary,
                                  !.problem_statement = llm.problem_statement ] ])))

\* Step 5 and after: what analyze_thread does with a parsed LLM response
SaveAnalysis(S, u, t, llm, rep) ==
    Then([ S EXCEPT !.threads[u][t] = ThreadUpdate(@, llm, S.now) ], LAMBDA S1 :
    Then(CheckedNextSteps(S1, t, llm), LAMBDA ns :
    Then(NewNextStepRows(S1.next_steps, u, t, ns), LAMBDA nsRows :
    Then(NewAssignments(S1, u, t, nsRows), LAMBDA asg :
      IF nsRows # {} /\ llm.fault = "ns_insert"
      THEN AnalyzeFailed(S1, u, t, rep, "ns_insert")
      ELSE SaveFeatureRequests(
             [ S1 EXCEPT !.next_steps = @ \cup nsRows,
                         !.assignments = IF llm.fault = "assignments" THEN @
                                         ELSE @ \cup asg ],
             u, t, llm,
             [ rep EXCEPT !.new_steps = { r.step_id : r \in nsRows },
                          !.failure = IF llm.fault = "assignments" /\ asg # {}
                                      THEN "assignments"
                                      ELSE IF llm.fault = "ns_check" /\ llm.next_steps # <<>>
                                      THEN "ns_check" ELSE "none" ])))))

\* The body of analyze_thread(user_id, thread_id); llm is what the LLM answers if
\* it is called
AnalyzeSteps(S, u, t, llm) ==
    LET row == S.threads[u][t]
        all == OrderBySentDate(S.messages[u][t])
        rep0 == [ NoAnalysis EXCEPT !.called = TRUE, !.user = u, !.thread = t,
                    !.fault = llm.fault,
                    !.prior = row.last_analyzed_at, !.pre_stage = S.stages[u][t],
                    !.n_msgs = Len(all),
                    !.n_after = Cardinality({ i \in 1..Len(all) :
                                               /\ all[i].sent_date >= 0
                                               /\ all[i].sent_date > row.last_analyzed_at }),
                    !.n_undated = Cardinality({ i \in 1..Len(all) : all[i].sent_date < 0 }) ]
        mode == IF row.last_analyzed_at = Null THEN "full" ELSE "incremental"
    IN IF ~row.exists THEN AnalyzeFailed(S, u, t, rep0, "not_found")
       ELSE IF all = <<>> THEN AnalyzeFailed(S, u, t, rep0, "no_messages")
       ELSE
         Then(IF mode = "full" THEN all ELSE FilterNew(all, row.last_analyzed_at), LAMBDA sel :
           IF mode = "incremental" /\ sel = <<>>
           THEN IF llm.fault = "stage_write"
                THEN AnalyzeFailed(S, u, t, [ rep0 EXCEPT !.mode = mode ], "stage_write")
                ELSE [ S |-> UpdateStages(S, u, {t}, "completed", "analyze"),
                       rep |-> [ rep0 EXCEPT !.mode = mode, !.success = TRUE,
                                             !.skipped = TRUE ] ]
           ELSE
             Then([ rep0 EXCEPT !.mode = mode,
                                !.selected = [ i \in 1..Len(sel) |-> sel[i].message_id ],
                                !.transcript = BuildTranscript(sel),
                                !.llm_called = TRUE ], LAMBDA rep2 :
               IF llm.kind # "ok" THEN AnalyzeFailed(S, u, t, rep2, "llm")
               ELSE SaveAnalysis(S, u, t, llm, rep2)))

\* analyze_thread as its caller sees it: the result, and the stage as it returns
analyze_thread(S, u, t, llm) ==
    Then(AnalyzeSteps(S, u, t, llm), LAMBDA r :
      [ r EXCEPT !.rep.post_stage = r.S.stages[u][t] ])

\* run_analyze_thread_job(payload): stage analyzing, then analyze_thread
run_analyze_thread_job(S, u, t, llm) ==
    Then(UpdateStages(S, u, {t}, "analyzing", "job"), LAMBDA S1 :
      analyze_thread(S1, u, t, llm))

(***************************************************************************)
(* Entity resolution (resolver.py).                                        *)
(***************************************************************************)
UpperChar(c) ==
    IF \E i \in 1..Len(LowerCase) : LowerCase[i] = c
    THEN UpperCase[CHOOSE i \in 1..Len(LowerCase) : LowerCase[i] = c]
    ELSE c

\* str.capitalize
Capitalize(s) ==
    [ i \in 1..Len(s) |-> IF i = 1 THEN UpperChar(s[i]) ELSE LowerChar(s[i]) ]

\* domain.split(".")[0].capitalize() if "." in domain else domain.capitalize()
CompanyName(domain) ==
    IF Contains(domain, ".") THEN Capitalize(Split(domain, ".")[1]) ELSE Capitalize(domain)

\* the tenant's own address, lower-cased, or None
UserEmail(S, u) ==
    IF S.profiles[u] = None \/ S.profiles[u] = <<>> THEN None ELSE Lower(S.profiles[u])

\* Step 3, one message: from_address, to_addresses, cc_addresses
MessageEmails(m) ==
    (IF extract_email_from_address(m.from_address) \in {None, <<>>} THEN {}
     ELSE { Lower(extract_email_from_address(m.from_address)) })
    \cup extract_emails_from_json(JsonList(m.to_addresses))
    \cup extract_emails_from_json(JsonList(m.cc_addresses))

\* Step 3, one thread: the union over its messages, without the tenant's own address
ThreadEmails(S, u, t) ==
    LET ms == S.messages[u][t]
        found == UNION { MessageEmails(ms[i]) : i \in 1..Len(ms) }
    IN IF UserEmail(S, u) # None THEN found \ { UserEmail(S, u) } ELSE found

\* A faulty customer lookup that never finds a row: the fault C4 must detect
FindCustomer_NoMatch(S, u, email) == {}

\* table("customers").select("customer_id").eq("email", email).eq("user_id", u)
FindCustomer(S, u, email) == { c \in S.customers : c.email = email /\ c.user_id = u }

\* table("companies").select("company_id").eq("domain_name", domain).eq("user_id", u)
FindCompany(S, u, domain) == { c \in S.companies : c.domain_name = domain /\ c.user_id = u }

\* Step 4, one email without a customer: create it, and its company if needed
CreateCustomer(S, u, email, acc, domain) ==
    LET known == FindCompany(S, u, domain)
        new_company == [ company_id |-> Cardinality(S.companies) + 1, user_id |-> u,
                         domain_name |-> domain, company_name |-> CompanyName(domain) ]
        company_id == IF domain = <<>> THEN Null
                      ELSE IF known # {} THEN (CHOOSE c \in known : TRUE).company_id
                      ELSE new_company.company_id
        companies1 == IF domain # <<>> /\ known = {}
                      THEN S.companies \cup { new_company } ELSE S.companies
        new_customer == [ customer_id |-> Cardinality(S.customers) + 1, user_id |-> u,
                          email |-> email,
                          full_name |-> extract_local_part_from_email(email),
                          company_id |-> company_id ]
    IN IF company_id = Null
       THEN \* "Could not create/find company": no customer is created
            [ S |-> [ S EXCEPT !.companies = companies1 ],
              acc |-> [ acc EXCEPT !.errors = @ + 1 ] ]
       ELSE [ S |-> [ S EXCEPT !.companies = companies1,
                               !.customers = @ \cup { new_customer } ],
              acc |-> [ acc EXCEPT !.ids = (email :> new_customer.customer_id) @@ @,
                                   !.created = @ + 1 ] ]

\* Step 4, one email: find the customer, or create it
ResolveCustomer(S, u, email, acc) ==
    LET existing == FindCustomer(S, u, email)
    IN IF existing # {}
       THEN [ S |-> S,
              acc |-> [ acc EXCEPT
                          !.ids = (email :> (CHOOSE c \in existing : TRUE).customer_id) @@ @,
                          !.found = @ + 1 ] ]
       ELSE Then(extract_domain_from_email(email), LAMBDA domain :
              CreateCustomer(S, u, email, acc, domain))

\* Step 4: the loop over all_unique_emails
RECURSIVE ResolveCustomers(_, _, _, _)
ResolveCustomers(S, u, emails, acc) ==
    IF emails = {} THEN [ S |-> S, acc |-> acc ]
    ELSE Then(CHOOSE e \in emails : TRUE, LAMBDA email :
         Then(ResolveCustomer(S, u, email, acc), LAMBDA r :
         Then(emails \ { email }, LAMBDA rest :
           ResolveCustomers(r.S, u, rest, r.acc))))

\* Step 5: participants_to_insert, one row per (thread, email) with a customer id
ParticipantsToInsert(S, u, ts, ids) ==
    { [ thread_id |-> p[1], customer_id |-> ids[p[2]], user_id |-> u ] :
        p \in { q \in ts \X DOMAIN ids : q[2] \in ThreadEmails(S, u, q[1]) } }

\* upsert(..., on_conflict="thread_id,customer_id", ignore_duplicates=True)
UpsertParticipants(rows, new) ==
    rows \cup { n \in new : ~\E r \in rows :
                               r.thread_id = n.thread_id /\ r.customer_id = n.customer_id }

\* processor.py: the providers whose domains are not business domains
COMMON_EMAIL_PROVIDERS ==
    { << "g","m","a","i","l",".","c","o","m" >>,
      << "y","a","h","o","o",".","c","o","m" >>,
      << "o","u","t","l","o","o","k",".","c","o","m" >>,
      << "h","o","t","m","a","i","l",".","c","o","m" >>,
      << "i","c","l","o","u","d",".","c","o","m" >> }

\* A faulty classification that compares the domain as written: the fault C21
\* must detect
is_business_domain_CaseSensitive(domain) ==
    IF domain = <<>> THEN FALSE ELSE domain \notin COMMON_EMAIL_PROVIDERS

is_business_domain(domain) ==
    IF domain = <<>> THEN FALSE ELSE Lower(domain) \notin COMMON_EMAIL_PROVIDERS

\* Step 6: the idempotency gate's verdict on one stage value
InFlightStages == { "analyzing", "queued", "queued_for_analysis" }

GateSkips(current_stage) == current_stage \in InFlightStages \/ current_stage = "completed"

TriggerModes == { "dispatched", "direct", "import_error" }

\* trigger_analyze_thread_job(user_id, thread_id).  mode is what the environment
\* does with the trigger: the transport takes the task ("dispatched"), or it is
\* unconfigured or fails and the job is called in-process ("direct"), or the
\* in-process import fails and the call is skipped ("import_error").
trigger_analyze_thread_job(S, u, t, mode, llm, arep) ==
    IF mode = "dispatched"
    THEN [ S |-> [ S EXCEPT !.jobs[u][t] = @ + 1 ], rep |-> arep ]
    ELSE IF mode = "direct" THEN run_analyze_thread_job(S, u, t, llm)
    ELSE [ S |-> S, rep |-> arep ]

\* Step 7: the loop over threads_to_process
RECURSIVE TriggerAll(_, _, _, _, _, _)
TriggerAll(S, u, todo, modes, llms, arep) ==
    IF todo = {} THEN [ S |-> S, rep |-> arep ]
    ELSE Then(CHOOSE x \in todo : TRUE, LAMBDA t :
         Then(trigger_analyze_thread_job(S, u, t, modes[t], llms[t], arep), LAMBDA r :
         Then(todo \ { t }, LAMBDA rest :
           TriggerAll(r.S, u, rest, modes, llms, r.rep))))

Entities(S) ==
    [ companies |-> S.companies, customers |-> S.customers,
      participants |-> S.participants, links |-> S.links ]

NoResolve ==
    [ called |-> FALSE, user |-> "", batch |-> {}, pre_stages |-> <<>>, success |-> TRUE,
      processed_threads |-> 0, customers_created |-> 0, customers_found |-> 0,
      participants_linked |-> 0, jobs_triggered |-> 0, skipped_threads |-> <<>>,
      errors |-> 0, queued |-> {}, modes |-> <<>>, post_stages |-> <<>>,
      before |-> [ companies |-> {}, customers |-> {}, participants |-> {}, links |-> {} ],
      after |-> [ companies |-> {}, customers |-> {}, participants |-> {}, links |-> {} ] ]

\* Steps 6 and 7 of resolve_thread_entities: the gate, stage queued, the triggers
GateAndTrigger(S5, u, batch, modes, llms, arep, rep5) ==
    LET skipped == { t \in batch : GateSkips(S5.stages[u][t]) }
        threads_to_process == batch \ skipped
        rep6 == [ rep5 EXCEPT !.skipped_threads = [ t \in skipped |-> S5.stages[u][t] ],
                              !.processed_threads = Cardinality(batch),
                              !.after = Entities(S5) ]
    IN IF threads_to_process = {}
       THEN [ S |-> S5, rep |-> rep6, arep |-> arep ]
       ELSE Then(UpdateStages(S5, u, threads_to_process, "queued", "resolve"), LAMBDA S7 :
            Then(TriggerAll(S7, u, threads_to_process, modes, llms, arep), LAMBDA r7 :
              [ S |-> r7.S,
                rep |-> [ rep6 EXCEPT
                            !.jobs_triggered = Cardinality(threads_to_process),
                            !.queued = threads_to_process,
                            !.modes = [ t \in threads_to_process |-> modes[t] ],
                            !.after = Entities(r7.S) ],
                arep |-> r7.rep ]))

\* Steps 3 to 7 of resolve_thread_entities, for the threads that have messages
ResolveWithMessages(S1, u, batch, with_messages, modes, llms, arep, rep0) ==
    Then(UNION { ThreadEmails(S1, u, t) : t \in with_messages }, LAMBDA all_unique_emails :
    Then(ResolveCustomers(S1, u, all_unique_emails,
                          [ ids |-> <<>>, created |-> 0, found |-> 0, errors |-> 0 ]),
         LAMBDA r4 :
    Then(ParticipantsToInsert(r4.S, u, with_messages, r4.acc.ids), LAMBDA to_insert :
    Then([ r4.S EXCEPT !.participants = UpsertParticipants(@, to_insert) ], LAMBDA S5 :
      GateAndTrigger(S5, u, batch, modes, llms, arep,
                     [ rep0 EXCEPT !.customers_created = r4.acc.created,
                                   !.customers_found = r4.acc.found,
                                   !.errors = r4.acc.errors,
                                   !.participants_linked = Cardinality(to_insert) ])))))

\* The body of resolve_thread_entities(user_id, thread_ids).  modes and
\* llms say, per thread, how its trigger is delivered and what the LLM answers
\* if the job runs in-process.  arep is the last analysis report so far.
ResolveSteps(S, u, batch, modes, llms, arep) ==
    LET rep0 == [ NoResolve EXCEPT !.called = TRUE, !.user = u, !.batch = batch,
                    !.pre_stages = [ t \in batch |-> S.stages[u][t] ],
                    !.before = Entities(S) ]
        with_messages == { t \in batch : S.messages[u][t] # <<>> }
    IN IF batch = {} THEN [ S |-> S, rep |-> [ rep0 EXCEPT !.after = Entities(S) ],
                            arep |-> arep ]
       ELSE \* Step 1
         Then(UpdateStages(S, u, batch, "resolving_entities", "resolve"), LAMBDA S1 :
           IF with_messages = {}
           THEN \* "Update stages to 'analyzing' even if no messages"
                Then(UpdateStages(S1, u, batch, "analyzing", "resolve"), LAMBDA S2 :
                  [ S |-> S2, rep |-> [ rep0 EXCEPT !.after = Entities(S2) ],
                    arep |-> arep ])
           ELSE ResolveWithMessages(S1, u, batch, with_messages, modes, llms, arep, rep0))

\* the call as its caller sees it: the report, and the stages as it returns
resolve_thread_entities(S, u, batch, modes, llms, arep) ==
    Then(ResolveSteps(S, u, batch, modes, llms, arep), LAMBDA r :
      [ r EXCEPT !.rep.post_stages = [ t \in batch |-> r.S.stages[u][t] ] ])

(***************************************************************************)
(* The pipeline's inputs: tenants, threads, addresses, messages, LLM       *)
(* answers.                                                                *)
(***************************************************************************)
Tenants == { "u1" }

Stages == { "new", "pending", "resolving_entities", "queued", "queued_for_analysis",
            "analyzing", "completed", "failed" }
\* a current_stage value outside the enumeration (processor.py's docstring names it)
UnknownStage == "imported"

AcmeIo == << "a","c","m","e",".","i","o" >>
GmailCom == << "g","m","a","i","l",".","c","o","m" >>
\* "Al <Al@acme.io>"
AddrAl == << "A","l"," ","<","A","l","@" >> \o AcmeIo \o << ">" >>
\* "bo@gmail.com"
AddrBo == << "b","o","@" >> \o GmailCom
\* "me@acme.io", the tenant's own address
AddrMe == << "m","e","@" >> \o AcmeIo
\* "list", an address field without "@" (such as undisclosed-recipients:;)
AddrList == << "l","i","s","t" >>

EmailAl == << "a","l","@" >> \o AcmeIo
EmailBo == AddrBo
EmailMe == AddrMe
EmailList == AddrList

MsgFromAl(id, date) ==
    [ message_id |-> id, from_address |-> AddrAl, to_addresses |-> << AddrMe >>,
      cc_addresses |-> <<>>, body_text |-> 5, body_html |-> 0, sent_date |-> date ]

MsgFromMe(id, date) ==
    [ message_id |-> id, from_address |-> AddrMe, to_addresses |-> << AddrBo, AddrAl >>,
      cc_addresses |-> << AddrList >>, body_text |-> 0, body_html |-> 7, sent_date |-> date ]

\* a threads row: summary None and sentiment_score << >> are SQL NULL, a score v is << v >>
NoThreadRow ==
    [ exists |-> FALSE, last_analyzed_at |-> Null, summary |-> None, sentiment_score |-> <<>> ]
FreshThreadRow ==
    [ exists |-> TRUE, last_analyzed_at |-> Null, summary |-> None, sentiment_score |-> <<>> ]

\* next-step texts: "Fu", its case and whitespace variant "fu ", and "go"
DescFu == << "F","u" >>
DescFuVariant == << "f","u"," " >>
DescGo == << "g","o" >>
\* feature-request titles: "Sso" and its variant " SSO"
TitleSso == << "S","s","o" >>
TitleSsoVariant == << " ","S","S","O" >>

SummaryText == << "o","k" >>

\* An LLM answer: kind "error" is a raised call, an empty or an unparseable
\* response; kind "ok" a parsed JSON object, a missing key being << >>.  fault is
\* the store failure, if any, that the run meets (see Faults)
LLMError ==
    [ kind |-> "error", next_steps |-> <<>>, feature_requests |-> <<>>,
      timeline_summary |-> <<>>, problem_statement |-> <<>>, sentiment_score |-> <<>>,
      fault |-> "none" ]
LLMOne ==
    [ kind |-> "ok", next_steps |-> << [ text |-> DescFu ] >>,
      feature_requests |-> << [ title |-> TitleSso, urgency |-> "High" ] >>,
      timeline_summary |-> SummaryText, problem_statement |-> SummaryText,
      sentiment_score |-> << 1 >>, fault |-> "none" ]

(***************************************************************************)
(* Spec: the resolution pipeline of one thread.  Resolve calls, and the    *)
(* analysis jobs the transport was handed.                                 *)
(***************************************************************************)
MaxOps == 2

PipelineThreads == { "t1" }

PipelineLLM == { LLMError, LLMOne }

StartStages == Stages \cup { UnknownStage, NoRecord }

\* the tables and bookkeeping every specification starts from
EmptyTables(ts) ==
    /\ threads = [ u \in Tenants |-> [ t \in ts |-> FreshThreadRow ] ]
    /\ companies = {}
    /\ customers = {}
    /\ participants = {}
    /\ links = {}
    /\ next_steps = {}
    /\ feature_requests = {}
    /\ assignments = {}
    /\ jobs = [ u \in Tenants |-> [ t \in ts |-> 0 ] ]
    /\ writes = {}
    /\ ops = 0
    /\ resolveRep = NoResolve
    /\ prevResolve = NoResolve
    /\ analyzeRep = NoAnalysis

\* the thread starts in any stage, with none, one or two messages
Init ==
    /\ EmptyTables(PipelineThreads)
    /\ stages \in [ Tenants -> [ PipelineThreads -> StartStages ] ]
    /\ messages \in [ Tenants -> [ PipelineThreads ->
                                    { <<>>, << MsgFromAl(1, 0) >>,
                                      << MsgFromAl(1, 0), MsgFromMe(2, Null) >> } ] ]
    /\ profiles \in [ Tenants -> { AddrMe, None } ]
    /\ now = 1
    /\ tinput = <<>>
    /\ toutput = <<>>
    /\ pc = <<>>
    /\ loc = <<>>

\* a caller runs resolve_thread_entities(u, batch)
Resolve(u, batch, modes, llms) ==
    /\ ops < MaxOps
    /\ \E r \in { resolve_thread_entities(Store, u, batch, modes, llms, analyzeRep) } :
          /\ SetStore(r.S)
          /\ resolveRep' = r.rep
          /\ prevResolve' = resolveRep
          /\ analyzeRep' = r.arep
    /\ ops' = ops + 1
    /\ UNCHANGED << tinput, toutput, pc, loc >>

\* the job transport runs a dispatched analyze-thread task
RunJob(u, t, llm) ==
    /\ jobs[u][t] > 0
    /\ \E S0 \in { [ Store EXCEPT !.jobs[u][t] = @ - 1 ] } :
         \E r \in { run_analyze_thread_job(S0, u, t, llm) } :
            /\ SetStore(r.S)
            /\ analyzeRep' = r.rep
    /\ UNCHANGED << ops, resolveRep, prevResolve, tinput, toutput, pc, loc >>

Next ==
    \/ \E u \in Tenants, batch \in (SUBSET PipelineThreads) \ { {} } :
         \E modes \in [ batch -> TriggerModes ], llms \in [ batch -> PipelineLLM ] :
           Resolve(u, batch, modes, llms)
    \/ \E u \in Tenants, t \in PipelineThreads, llm \in PipelineLLM : RunJob(u, t, llm)

Spec == Init /\ [][Next]_vars

(***************************************************************************)
(* Properties of the resolution pipeline (Spec).                           *)
(***************************************************************************)
\* the threads of the last resolve call that had a stage record and a message
ResolvedWithMessages ==
    { t \in resolveRep.batch :
        /\ resolveRep.pre_stages[t] # NoRecord
        /\ messages[resolveRep.user][t] # <<>> }

\* C1: when resolve_thread_entities returns, every thread of the batch that has a
\* stage record and at least one message is in stage queued.
C1_QueuedOnReturn ==
    resolveRep.called =>
      \A t \in ResolvedWithMessages : resolveRep.post_stages[t] = "queued"

\* the customers rows of one tenant for one address
CustomersOf(u, email) == { c \in customers : c.user_id = u /\ c.email = email }

\* C2: after a resolve call, every participant address of every thread of the batch
\* (the tenant's own excepted) has exactly one customer row and a participant row
\* for it in that thread; an address whose domain is not a business domain, or
\* that has no domain, has a customer with a null company id.
C2_CustomerPerParticipant ==
    resolveRep.called =>
      \A t \in resolveRep.batch :
        \A e \in ThreadEmails(Store, resolveRep.user, t) :
          /\ Cardinality(CustomersOf(resolveRep.user, e)) = 1
          /\ \A c \in CustomersOf(resolveRep.user, e) :
               /\ \E p \in participants :
                     /\ p.thread_id = t
                     /\ p.customer_id = c.customer_id
                     /\ p.user_id = resolveRep.user
               /\ ~is_business_domain(extract_domain_from_email(e))
                     => c.company_id = Null

\* the companies implied by the participants of a thread
ImpliedCompanies(u, t) ==
    { c \in companies :
        /\ c.user_id = u
        /\ \E e \in ThreadEmails(Store, u, t) : c.domain_name = extract_domain_from_email(e) }

\* C3: after a resolve call, every company implied by the participants of a thread
\* of the batch has exactly one thread_company_link row for that thread.
C3_LinkPerImpliedCompany ==
    resolveRep.called =>
      \A t \in resolveRep.batch :
        \A c \in ImpliedCompanies(resolveRep.user, t) :
          Cardinality({ l \in links : /\ l.thread_id = t
                                       /\ l.company_id = c.company_id
                                       /\ l.user_id = resolveRep.user }) = 1

\* the last two resolve calls were given the same tenant and the same batch, and
\* nothing changed the entity tables between them
ResolvedTwice ==
    /\ resolveRep.called
    /\ prevResolve.called
    /\ resolveRep.user = prevResolve.user
    /\ resolveRep.batch = prevResolve.batch
    /\ resolveRep.before = prevResolve.after

\* C4: a second resolve call on the same batch leaves the companies, customers,
\* thread_participants and thread_company_link rows as the first left them, and
\* finds as many customers as the first created and found together.
C4_ResolveIdempotent ==
    ResolvedTwice =>
      /\ resolveRep.after = prevResolve.after
      /\ resolveRep.customers_found =
           prevResolve.customers_created + prevResolve.customers_found

\* C4 is exercised: the first call created a customer and the second found it
C4_Witness ==
    /\ ResolvedTwice
    /\ prevResolve.customers_created > 0
    /\ resolveRep.customers_found > 0

\* C5: a thread that resolve is called on while its stage is analyzing, queued,
\* queued_for_analysis or completed is reported in skipped_threads and is neither
\* set to queued nor triggered.
C5_GateSkipsInFlight ==
    resolveRep.called =>
      \A t \in resolveRep.batch :
        resolveRep.pre_stages[t] \in InFlightStages \cup { "completed" } =>
          /\ t \in DOMAIN resolveRep.skipped_threads
          /\ t \notin resolveRep.queued

\* C6: stage analyzing is written only over stage queued.
C6_AnalyzingOnlyFromQueued ==
    \A w \in writes : w.to = "analyzing" => w.from = "queued"

(***************************************************************************)
(* SpecAnalyze: sequential analysis runs of one thread, started directly   *)
(* (analyzer.py's command line) while messages arrive and time passes.     *)
(***************************************************************************)
MaxRuns == 2
MaxTime == 2
MaxMsgs == 2

AnalyzeThreads == { "t1" }

LLMVariants ==
    [ kind |-> "ok",
      next_steps |-> << [ text |-> DescFu ], [ text |-> DescFuVariant ] >>,
      feature_requests |-> << [ title |-> TitleSso, urgency |-> "High" ],
                              [ title |-> TitleSsoVariant, urgency |-> "Urgent" ] >>,
      timeline_summary |-> <<>>, problem_statement |-> SummaryText,
      sentiment_score |-> << -2 >>, fault |-> "none" ]
LLMVariantOnly ==
    [ kind |-> "ok", next_steps |-> << [ text |-> DescFuVariant ] >>,
      feature_requests |-> << [ title |-> TitleSsoVariant, urgency |-> "Low" ] >>,
      timeline_summary |-> SummaryText, problem_statement |-> <<>>,
      sentiment_score |-> << 5 >>, fault |-> "none" ]
LLMOther ==
    [ kind |-> "ok", next_steps |-> << [ text |-> DescGo ], [ text |-> <<>> ] >>,
      feature_requests |-> <<>>,
      timeline_summary |-> SummaryText, problem_statement |-> SummaryText,
      sentiment_score |-> << 0 >>, fault |-> "none" ]
\* the JSON object {}
LLMEmpty ==
    [ kind |-> "ok", next_steps |-> <<>>, feature_requests |-> <<>>,
      timeline_summary |-> <<>>, problem_statement |-> <<>>, sentiment_score |-> <<>>,
      fault |-> "none" ]

AnalysisLLM == { LLMError, LLMOne, LLMVariants, LLMVariantOnly, LLMOther, LLMEmpty }

\* what a resolve run left for a thread whose one participant is Al
AlCompany ==
    [ company_id |-> 1, user_id |-> "u1", domain_name |-> AcmeIo,
      company_name |-> CompanyName(AcmeIo) ]
AlCustomer ==
    [ customer_id |-> 1, user_id |-> "u1", email |-> EmailAl,
      full_name |-> extract_local_part_from_email(EmailAl), company_id |-> 1 ]
AlParticipant == [ thread_id |-> "t1", customer_id |-> 1, user_id |-> "u1" ]

\* the sent_date of an arriving message: the clock, missing, or unparsable
ArrivalDates == { Null, BadDate }

InitAnalyze ==
    /\ stages \in [ Tenants -> [ AnalyzeThreads -> { "queued", NoRecord } ] ]
    /\ threads \in [ Tenants -> [ AnalyzeThreads -> { FreshThreadRow, NoThreadRow } ] ]
    /\ messages \in [ Tenants -> [ AnalyzeThreads ->
                                    { <<>>, << MsgFromAl(1, 0) >>, << MsgFromAl(1, Null) >> } ] ]
    /\ profiles = [ u \in Tenants |-> AddrMe ]
    /\ companies = { AlCompany }
    /\ customers = { AlCustomer }
    /\ participants = { AlParticipant }
    /\ links = {}
    /\ next_steps = {}
    /\ feature_requests = {}
    /\ assignments = {}
    /\ jobs = [ u \in Tenants |-> [ t \in AnalyzeThreads |-> 0 ] ]
    /\ writes = {}
    /\ now = 1
    /\ ops = 0
    /\ resolveRep = NoResolve
    /\ prevResolve = NoResolve
    /\ analyzeRep = NoAnalysis
    /\ tinput = <<>>
    /\ toutput = <<>>
    /\ pc = <<>>
    /\ loc = <<>>

\* analyze_thread(u, t) is called directly
Analyze(u, t, llm) ==
    /\ ops < MaxRuns
    /\ \E r \in { analyze_thread(Store, u, t, llm) } :
          /\ SetStore(r.S)
          /\ analyzeRep' = r.rep
    /\ ops' = ops + 1
    /\ UNCHANGED << resolveRep, prevResolve, tinput, toutput, pc, loc >>

\* the sync stores a new message of the thread
Ingest(u, t, date) ==
    /\ Len(messages[u][t]) < MaxMsgs
    /\ messages' = [ messages EXCEPT ![u][t] =
                       Append(@, MsgFromAl(Len(@) + 1, date)) ]
    /\ UNCHANGED << stages, threads, profiles, companies, customers, participants, links,
                    next_steps, feature_requests, assignments, jobs, writes, now, ops,
                    resolveRep, prevResolve, analyzeRep, tinput, toutput, pc, loc >>

\* time passes
Tick ==
    /\ now < MaxTime
    /\ now' = now + 1
    /\ UNCHANGED << stages, threads, messages, profiles, companies, customers,
                    participants, links, next_steps, feature_requests, assignments, jobs,
                    writes, ops, resolveRep, prevResolve, analyzeRep, tinput, toutput,
                    pc, loc >>

NextAnalyze ==
    \/ \E u \in Tenants, t \in AnalyzeThreads, llm \in AnalysisLLM : Analyze(u, t, llm)
    \/ \E u \in Tenants, t \in AnalyzeThreads, date \in ArrivalDates \cup { now } :
         Ingest(u, t, date)
    \/ Tick

SpecAnalyze == InitAnalyze /\ [][NextAnalyze]_vars

(***************************************************************************)
(* Properties of sequential analysis runs (SpecAnalyze).                   *)
(***************************************************************************)
\* the last analyze_thread call found last_analyzed_at set and no message of the
\* thread dated strictly after it
NothingNewerAtCall ==
    /\ analyzeRep.called
    /\ analyzeRep.prior # Null
    /\ analyzeRep.n_after = 0

ShortCircuited ==
    /\ analyzeRep.post_stage = "completed"
    /\ analyzeRep.success
    /\ analyzeRep.skipped
    /\ ~analyzeRep.llm_called

AllDatedAtCall ==
    /\ analyzeRep.pre_stage # NoRecord
    /\ analyzeRep.fault # "stage_write"
    /\ analyzeRep.n_msgs > 0
    /\ analyzeRep.n_undated = 0

C27_AnalyzingDuringLLMCall ==
    (analyzeRep.llm_called /\ analyzeRep.pre_stage # NoRecord) =>
        analyzeRep.pre_stage = "analyzing"

\* the messages the thread had when the last analyze_thread call read them
AtCall == SubSeq(messages[analyzeRep.user][analyzeRep.thread], 1, analyzeRep.n_msgs)

\* the ids of the messages that incremental mode must select
NewSince(ms, last_analyzed_at) ==
    { ms[i].message_id : i \in { j \in 1..Len(ms) :
          \/ ms[j].sent_date = Null
          \/ ms[j].sent_date = BadDate
          \/ ms[j].sent_date > last_analyzed_at } }

SentDateOf(ms, id) == (CHOOSE m \in { ms[i] : i \in 1..Len(ms) } : m.message_id = id).sent_date

\* a list of message ids without repetition, in ascending order of sent_date
\* where both dates are usable, messages without a date last
InSentOrder(ms, ids) ==
    \A j, k \in 1..Len(ids) :
       j < k =>
          /\ ids[j] # ids[k]
          /\ (SentDateOf(ms, ids[j]) >= 0 /\ SentDateOf(ms, ids[k]) >= 0)
                => SentDateOf(ms, ids[j]) <= SentDateOf(ms, ids[k])
          /\ SentDateOf(ms, ids[j]) = Null => SentDateOf(ms, ids[k]) = Null

AnalyzedThread == threads[analyzeRep.user][analyzeRep.thread]

\* C29: every analyze_thread run that obtains a parsed LLM response sets the
\* thread's last_analyzed_at to the time of the run, whatever the response
\* holds, and the last_analyzed_at of a successful run's report is the stored one
C29_LastAnalyzedRefreshed ==
    [][ (ops' = ops + 1 /\ analyzeRep'.llm_called /\ analyzeRep'.failure # "llm") =>
           /\ threads'[analyzeRep'.user][analyzeRep'.thread].last_analyzed_at = now
           /\ analyzeRep'.success =>
                 analyzeRep'.last_analyzed_at =
                    threads'[analyzeRep'.user][analyzeRep'.thread].last_analyzed_at ]_vars

\* C29 is exercised: a run whose response held no field succeeded, and moved
\* last_analyzed_at
C29_Witness ==
    /\ analyzeRep.success
    /\ analyzeRep.llm_called
    /\ AnalyzedThread.summary = None
    /\ AnalyzedThread.sentiment_score = <<>>
    /\ AnalyzedThread.last_analyzed_at = analyzeRep.last_analyzed_at
    /\ analyzeRep.last_analyzed_at # analyzeRep.prior

\* the summary that the answer reported by the last run calls for; << >> is blank
SummaryCalledFor ==
    IF analyzeRep.timeline_summary # <<>> THEN analyzeRep.timeline_summary
    ELSE IF analyzeRep.problem_statement # <<>> THEN analyzeRep.problem_statement
    ELSE <<>>

\* C30: after a successful analysis that was not skipped the stored summary is
\* the LLM's timeline_summary if it is not empty, else its problem_statement if
\* that is not empty, else blank (null or empty), and never the summary of an
\* earlier analysis
C30_SummaryPersisted ==
    (analyzeRep.success /\ ~analyzeRep.skipped) =>
        IF SummaryCalledFor = <<>> THEN AnalyzedThread.summary \in { None, <<>> }
        ELSE AnalyzedThread.summary = SummaryCalledFor

\* C39: when the LLM call fails or its output is empty or does not parse,
\* analyze_thread changes nothing but the stage: the thread's fields and the
\* next_steps, feature_requests and assignments rows are as before the run
C39_LLMFailureChangesOnlyStage ==
    [][ (ops' = ops + 1 /\ analyzeRep'.failure = "llm") =>
           /\ threads' = threads
           /\ next_steps' = next_steps
           /\ feature_requests' = feature_requests
           /\ assignments' = assignments
           /\ messages' = messages
           /\ << companies, customers, participants, links >>' =
                 << companies, customers, participants, links >> ]_vars

\* C39 is exercised: the LLM call of a run on a thread analysed before failed;
\* the rows of the earlier run are there and the stage is failed
C39_Witness ==
    /\ analyzeRep.failure = "llm"
    /\ analyzeRep.prior # Null
    /\ AnalyzedThread.last_analyzed_at = analyzeRep.prior
    /\ AnalyzedThread.summary # None
    /\ next_steps # {}
    /\ assignments # {}
    /\ analyzeRep.pre_stage = "completed"
    /\ analyzeRep.post_stage = "failed"

NoDuplicateItems ==
    /\ \A r1, r2 \in next_steps :
         (r1.thread_id = r2.thread_id
            /\ Normalize(r1.description) = Normalize(r2.description)) => r1 = r2
    /\ \A r1, r2 \in feature_requests :
         (r1.thread_id = r2.thread_id
            /\ Normalize(r1.title) = Normalize(r2.title)) => r1 = r2

\* C9: after any sequence of analysis runs one after the other, no two next_steps
\* rows of a thread have the same normalized description, and no two
\* feature_requests rows of a thread the same normalized title.
C9_NoDuplicateItems == NoDuplicateItems

(***************************************************************************)
(* SpecTranscript: Steps 2 and 3 of analyze_thread applied to message      *)
(* lists whose joined bodies lie on either side of the token limit.        *)
(***************************************************************************)
MaxTranscriptLen == 5

\* body lengths: empty, short, and one that alone estimates to exactly TokenLimit
BodyLens == { 0, 3, 4 * TokenLimit }

TranscriptMessages(bodies) ==
    [ i \in 1..Len(bodies) |-> [ MsgFromAl(i, i) EXCEPT !.body_text = bodies[i] ] ]

InitTranscript ==
    /\ EmptyTables(AnalyzeThreads)
    /\ stages = [ u \in Tenants |-> [ t \in AnalyzeThreads |-> "analyzing" ] ]
    /\ messages = [ u \in Tenants |-> [ t \in AnalyzeThreads |-> <<>> ] ]
    /\ profiles = [ u \in Tenants |-> AddrMe ]
    /\ now = 1
    /\ \E n \in 1..MaxTranscriptLen :
         \E bodies \in [ 1..n -> BodyLens ] : tinput = TranscriptMessages(bodies)
    /\ toutput = <<>>
    /\ pc = <<>>
    /\ loc = <<>>

\* the transcript is built from the selected messages
Build ==
    /\ ops = 0
    /\ toutput' = BuildTranscript(tinput)
    /\ ops' = 1
    /\ UNCHANGED << stages, threads, messages, profiles, companies, customers,
                    participants, links, next_steps, feature_requests, assignments, jobs,
                    writes, now, resolveRep, prevResolve, analyzeRep, tinput, pc, loc >>

NextTranscript == Build

SpecTranscript == InitTranscript /\ [][NextTranscript]_vars

\* the last k messages of a list, none for k = 0
LastMessages(ms, k) == SubSeq(ms, Len(ms) - k + 1, Len(ms))

\* the transcript the context-window guard is specified to produce
GuardedTranscript(ms) ==
    IF estimate_tokens(JoinedLen(ms)) <= TokenLimit
    THEN construct_transcript(ms)
    ELSE construct_transcript(SubSeq(ms, 1, Len(ms) \div 5))
         \o << Marker >>
         \o construct_transcript(LastMessages(ms, Len(ms) \div 5))

\* C8: for n selected messages, at or under 100,000 estimated tokens the transcript
\* renders all n messages and no marker; above, it renders exactly the first
\* floor(0.2n) and the last floor(0.2n) messages around one marker, for every
\* n >= 1.
C8_ContextWindowGuard == ops = 1 => toutput = GuardedTranscript(tinput)

(***************************************************************************)
(* SpecRace: two analysis runs of the same thread, each past its LLM call, *)
(* interleaved statement by statement.                                     *)
(***************************************************************************)
RaceRuns == { 1, 2 }
RaceUser == "u1"
RaceThread == "t1"

\* LLM answers without a duplicate inside one answer
RaceLLM == { LLMOne, LLMVariantOnly, LLMOther }

InitRace ==
    /\ stages = [ u \in Tenants |-> [ t \in AnalyzeThreads |-> "analyzing" ] ]
    /\ threads = [ u \in Tenants |-> [ t \in AnalyzeThreads |-> FreshThreadRow ] ]
    /\ messages = [ u \in Tenants |-> [ t \in AnalyzeThreads |-> << MsgFromAl(1, 0) >> ] ]
    /\ profiles = [ u \in Tenants |-> AddrMe ]
    /\ companies = { AlCompany }
    /\ customers = { AlCustomer }
    /\ participants = { AlParticipant }
    /\ links = {}
    /\ next_steps = {}
    /\ feature_requests = {}
    /\ assignments = {}
    /\ jobs = [ u \in Tenants |-> [ t \in AnalyzeThreads |-> 0 ] ]
    /\ writes = {}
    /\ now = 1
    /\ ops = 0
    /\ resolveRep = NoResolve
    /\ prevResolve = NoResolve
    /\ analyzeRep = NoAnalysis
    /\ tinput = <<>>
    /\ toutput = <<>>
    /\ pc = [ r \in RaceRuns |-> "update" ]
    /\ \E llms \in [ RaceRuns -> RaceLLM ] :
         loc = [ r \in RaceRuns |-> [ llm |-> llms[r], ns |-> <<>>, fr |-> <<>> ] ]

\* what a step of a run leaves alone besides the store
RaceUnchanged == UNCHANGED << ops, resolveRep, prevResolve, analyzeRep, tinput, toutput >>

\* table("threads").update({... "last_analyzed_at": now})
UpdateThread(r) ==
    /\ pc[r] = "update"
    /\ SetStore([ Store EXCEPT !.threads[RaceUser][RaceThread] =
                                   ThreadUpdate(@, loc[r].llm, now) ])
    /\ pc' = [ pc EXCEPT ![r] = "check_ns" ]
    /\ UNCHANGED loc
    /\ RaceUnchanged

\* the loop of check_next_step_exists queries
CheckNextSteps(r) ==
    /\ pc[r] = "check_ns"
    /\ loc' = [ loc EXCEPT ![r].ns =
                  NextStepsToInsert(next_steps, RaceThread, loc[r].llm.next_steps) ]
    /\ pc' = [ pc EXCEPT ![r] = "insert_ns" ]
    /\ SetStore(Store)
    /\ RaceUnchanged

\* the batch insert of next steps, and of their assignments
InsertNextSteps(r) ==
    /\ pc[r] = "insert_ns"
    /\ \E rows \in { NewNextStepRows(next_steps, RaceUser, RaceThread, loc[r].ns) } :
         SetStore([ Store EXCEPT
                      !.next_steps = @ \cup rows,
                      !.assignments = @ \cup NewAssignments(Store, RaceUser, RaceThread, rows) ])
    /\ pc' = [ pc EXCEPT ![r] = "check_fr" ]
    /\ UNCHANGED loc
    /\ RaceUnchanged

\* the loop of check_feature_request_exists queries
CheckFeatureRequests(r) ==
    /\ pc[r] = "check_fr"
    /\ loc' = [ loc EXCEPT ![r].fr =
                  FeatureRequestsToInsert(feature_requests, RaceThread,
                                          loc[r].llm.feature_requests) ]
    /\ pc' = [ pc EXCEPT ![r] = "insert_fr" ]
    /\ SetStore(Store)
    /\ RaceUnchanged

\* the batch insert of feature requests
InsertFeatureRequests(r) ==
    /\ pc[r] = "insert_fr"
    /\ SetStore([ Store EXCEPT
                    !.feature_requests =
                       @ \cup NewFeatureRequestRows(feature_requests, RaceUser, RaceThread,
                                                    loc[r].fr) ])
    /\ pc' = [ pc EXCEPT ![r] = "complete" ]
    /\ UNCHANGED loc
    /\ RaceUnchanged

\* the stage write that ends the run
Complete(r) ==
    /\ pc[r] = "complete"
    /\ SetStore(UpdateStages(Store, RaceUser, { RaceThread }, "completed", "analyze"))
    /\ pc' = [ pc EXCEPT ![r] = "done" ]
    /\ UNCHANGED loc
    /\ RaceUnchanged

NextRace ==
    \E r \in RaceRuns :
      \/ UpdateThread(r)
      \/ CheckNextSteps(r)
      \/ InsertNextSteps(r)
      \/ CheckFeatureRequests(r)
      \/ InsertFeatureRequests(r)
      \/ Complete(r)

SpecRace == InitRace /\ [][NextRace]_vars

RaceDone == \A r \in RaceRuns : pc[r] = "done"

\* C10: when two concurrent analysis runs of a thread have both finished, the
\* thread has one next_steps row per normalized description and one
\* feature_requests row per normalized title.
C10_RaceLeavesOneRow == RaceDone => NoDuplicateItems

(***************************************************************************)
(* Properties of what an analysis run stores and reports (SpecAnalyze).    *)
(***************************************************************************)
SentimentScores == { << -2 >>, << -1 >>, << 0 >>, << 1 >>, << 2 >> }

\* the threads row of the thread the last analyze_thread call was about
AnalyzedRow == threads[analyzeRep.user][analyzeRep.thread]

FullModeSuccess ==
    /\ analyzeRep.called
    /\ analyzeRep.mode = "full"
    /\ analyzeRep.success

\* C11: after a full-mode analysis that returns success, the threads row has a
\* non-null summary and a sentiment_score in -2..2, and the stage is completed.
C11_FullModeResult ==
    FullModeSuccess =>
      /\ AnalyzedRow.summary # None
      /\ AnalyzedRow.sentiment_score \in SentimentScores
      /\ analyzeRep.post_stage = "completed"

(***************************************************************************)
(* SpecFaults: analysis runs of one thread that may each meet a store      *)
(* failure.                                                                *)
(***************************************************************************)
MaxFaultRuns == 2

\* analyze_thread(u, t) is called directly and meets the store failure fault
AnalyzeFaulty(u, t, llm, fault) ==
    /\ ops < MaxFaultRuns
    /\ \E r \in { analyze_thread(Store, u, t, [ llm EXCEPT !.fault = fault ]) } :
          /\ SetStore(r.S)
          /\ analyzeRep' = r.rep
    /\ ops' = ops + 1
    /\ UNCHANGED << resolveRep, prevResolve, tinput, toutput, pc, loc >>

NextFaults ==
    \E u \in Tenants, t \in AnalyzeThreads, llm \in AnalysisLLM, fault \in Faults :
      AnalyzeFaulty(u, t, llm, fault)

SpecFaults == InitAnalyze /\ [][NextFaults]_vars

(***************************************************************************)
(* Properties of failing analysis runs (SpecFaults).                       *)
(***************************************************************************)
\* the last analyze_thread call met a failure of one of the kinds named
AnalysisFailure == analyzeRep.called /\ analyzeRep.failure # "none"

\* the failures analyze_thread does not swallow
UncaughtFailures == { "not_found", "no_messages", "llm", "ns_insert", "stage_write" }

ReportedFailed ==
    /\ ~analyzeRep.success
    /\ analyzeRep.errors > 0

\* C12 as stated: any failure during analysis before the completed write leaves the
\* stage at failed and the report at success=false with a non-empty errors list.
C12_FailureMarksFailed_Stated ==
    AnalysisFailure => (analyzeRep.post_stage = "failed" /\ ReportedFailed)

\* C12: a failure that analyze_thread does not swallow (thread not found, no
\* messages, LLM error or unusable output, an insert or stage write that raises)
\* makes the report success=false with a non-empty errors list, and leaves the
\* stage at failed when the thread has a stage record and the write of failed
\* itself succeeds.
C12_FailureMarksFailed ==
    (analyzeRep.called /\ analyzeRep.failure \in UncaughtFailures) =>
      /\ ReportedFailed
      /\ (analyzeRep.pre_stage # NoRecord /\ analyzeRep.fault # "stage_write")
           => analyzeRep.post_stage = "failed"

\* C12 is exercised: an insert raised after the LLM answered, and the stage is failed
C12_Witness ==
    /\ analyzeRep.called
    /\ analyzeRep.failure = "ns_insert"
    /\ analyzeRep.post_stage = "failed"

\* the last analyze_thread call ran while every write of the stage table raised
StageWritesFailed == analyzeRep.called /\ analyzeRep.fault = "stage_write"

\* C34: if analysis fails and the write of stage failed fails too, analyze_thread
\* still returns its report, with success=false and the first error recorded,
\* and the stage keeps the value it had
C34_FailedWriteBestEffort ==
    StageWritesFailed =>
       /\ ~analyzeRep.success
       /\ analyzeRep.errors = 1
       /\ analyzeRep.failure \in UncaughtFailures
       /\ analyzeRep.post_stage = analyzeRep.pre_stage
       /\ stages[analyzeRep.user][analyzeRep.thread] = analyzeRep.pre_stage

\* C34 is exercised: the LLM call failed, the write of failed failed, and the
\* stage is still queued
C34_Witness ==
    /\ StageWritesFailed
    /\ analyzeRep.failure = "llm"
    /\ analyzeRep.pre_stage = "queued"
    /\ stages[analyzeRep.user][analyzeRep.thread] = "queued"

\* C36: a failed analysis does not advance the watermark: when analyze_thread
\* returns success=false, the thread's last_analyzed_at is what it was before
\* the run
C36_FailedRunKeepsWatermark ==
    (analyzeRep.called /\ ~analyzeRep.success) =>
        AnalyzedThread.last_analyzed_at = analyzeRep.prior

\* C37: no operation of the pipeline creates or deletes a stage record: a thread
\* has a record after a step exactly if it had one before, also when the gate
\* lets a thread without a record through and its analysis is triggered
C37_StageWritesUpdateOnly ==
    [][ \A u \in DOMAIN stages : \A t \in DOMAIN stages[u] :
           (stages'[u][t] = NoRecord) <=> (stages[u][t] = NoRecord) ]_vars

\* C37 is exercised: a thread without a stage record was resolved and queued for
\* analysis, its job ran, and it still has no record
C37_Witness ==
    /\ resolveRep.called
    /\ \E t \in resolveRep.queued :
          /\ resolveRep.pre_stages[t] = NoRecord
          /\ analyzeRep.called
          /\ analyzeRep.thread = t
          /\ analyzeRep.llm_called
          /\ stages[resolveRep.user][t] = NoRecord

(***************************************************************************)
(* SpecEntities: two entity-resolution runs on one thread, interleaved     *)
(* store call by store call.  Each run is resolve_thread_entities          *)
(* (resolver.py) or process_thread_entities (processor.py).  pc[r] is the  *)
(* store call run r makes next, loc[r] its local variables.                *)
(***************************************************************************)
EntityRuns == { "r1", "r2" }
EntityUser == "u1"
EntityThread == "t1"

\* A store without the unique index: the fault C13 must detect
CompanyConflict_Never(rows, row) == FALSE

\* the unique index of companies on (tenant, domain name): an insert of a second
\* row for the pair raises a duplicate-key error
CompanyConflict(rows, row) ==
    \E c \in rows : c.user_id = row.user_id /\ c.domain_name = row.domain_name

\* the unique index of customers on (tenant, email)
CustomerConflict(rows, row) ==
    \E c \in rows : c.user_id = row.user_id /\ c.email = row.email

\* the unique index of thread_company_link on (thread, company, tenant)
LinkConflict(rows, row) ==
    \E l \in rows : /\ l.thread_id = row.thread_id
                    /\ l.company_id = row.company_id
                    /\ l.user_id = row.user_id

\* company_data, with the id the store gives the row
CompanyData(rows, u, domain) ==
    [ company_id |-> Cardinality(rows) + 1, user_id |-> u,
      domain_name |-> domain, company_name |-> CompanyName(domain) ]

\* customer_data, with the id the store gives the row; company_id Null is absent
CustomerData(rows, u, email, company_id) ==
    [ customer_id |-> Cardinality(rows) + 1, user_id |-> u, email |-> email,
      full_name |-> extract_local_part_from_email(email), company_id |-> company_id ]

\* the local variables of a run that has not started: thread is the thread_id it
\* is called with, lost the emails and domains whose insert met a duplicate-key
\* error, failed the emails whose try block raised, raised the store call outside
\* the per-email try blocks that raised
NoLocals ==
    [ kind |-> "none", emails |-> {}, email |-> <<>>, domains |-> {}, domain |-> <<>>,
      thread_emails |-> {}, email_to_domain |-> <<>>, domain_to_company_id |-> <<>>,
      email_to_customer_id |-> <<>>, company_id |-> Null, errors |-> 0,
      created |-> {}, success |-> FALSE, thread |-> EntityThread, lost |-> {},
      failed |-> {}, raised |-> "none" ]

\* a message from Al to the tenant and to Bo
MsgToBo(id, date) ==
    [ message_id |-> id, from_address |-> AddrAl, to_addresses |-> << AddrMe, AddrBo >>,
      cc_addresses |-> <<>>, body_text |-> 5, body_html |-> 0, sent_date |-> date ]

\* the thread has no message, one from Al to the tenant, or one from Al to the
\* tenant and Bo
EntityMessages == { <<>>, << MsgFromAl(1, 0) >>, << MsgToBo(1, 0) >> }

InitEntities ==
    /\ EmptyTables({ EntityThread })
    /\ stages \in [ Tenants -> [ { EntityThread } -> { "new", NoRecord } ] ]
    /\ messages \in [ Tenants -> [ { EntityThread } -> EntityMessages ] ]
    /\ profiles \in [ Tenants -> { AddrMe, None } ]
    /\ now = 1
    /\ tinput = <<>>
    /\ toutput = <<>>
    /\ pc = [ r \in EntityRuns |-> "idle" ]
    /\ loc = [ r \in EntityRuns |-> NoLocals ]

\* what no entity-resolution step changes
EntityUnchanged ==
    UNCHANGED << threads, messages, profiles, next_steps, feature_requests, assignments,
                 now, ops, resolveRep, prevResolve, analyzeRep, tinput, toutput >>

\* one write of the thread's stage
WriteStage(t, stage, by) ==
    \E S1 \in { UpdateStages(Store, EntityUser, { t }, stage, by) } :
       /\ stages' = S1.stages
       /\ writes' = S1.writes

Goto(r, label) == pc' = [ pc EXCEPT ![r] = label ]

\* A faulty except branch that leaves the loop (break for continue): the fault C24
\* must detect
EmailFailed_Break(l, email) ==
    [ l EXCEPT !.errors = @ + 1, !.failed = @ \cup { email }, !.emails = {} ]

\* the except branch of the per-email try of resolve_thread_entities: the error is
\* appended to the report, the loop continues with the next email
EmailFailed(l, email) ==
    [ l EXCEPT !.errors = @ + 1, !.failed = @ \cup { email } ]

\* A faulty test that updates the company of a found customer whatever the run
\* has for it: the fault C25 must detect
HasCompanyId_Always(company_id) == TRUE

\* `if company_id:` before the update of a customer that exists
HasCompanyId(company_id) == company_id # Null

\* ---- resolve_thread_entities, store call by store call ----
\* Step 1: stage resolving_entities
RStage(r) ==
    /\ pc[r] = "idle"
    /\ WriteStage(loc[r].thread, "resolving_entities", "resolve")
    /\ Goto(r, "r_fetch")
    /\ loc' = [ loc EXCEPT ![r].kind = "resolve" ]
    /\ UNCHANGED << companies, customers, participants, links, jobs >>
    /\ EntityUnchanged

\* Steps 2 and 3: the profile, the messages, the emails without the tenant's own
RFetch(r) ==
    /\ pc[r] = "r_fetch"
    /\ IF messages[EntityUser][loc[r].thread] = <<>>
       THEN /\ Goto(r, "r_nomsg")
            /\ loc' = loc
       ELSE /\ Goto(r, "r_customer")
            /\ \E es \in { ThreadEmails(Store, EntityUser, loc[r].thread) } :
                 loc' = [ loc EXCEPT ![r].emails = es, ![r].thread_emails = es ]
    /\ UNCHANGED << stages, writes, companies, customers, participants, links, jobs >>
    /\ EntityUnchanged

\* "Update stages to 'analyzing' even if no messages", and return
RNoMessages(r) ==
    /\ pc[r] = "r_nomsg"
    /\ WriteStage(loc[r].thread, "analyzing", "resolve")
    /\ Goto(r, "done")
    /\ loc' = [ loc EXCEPT ![r].success = TRUE ]
    /\ UNCHANGED << companies, customers, participants, links, jobs >>
    /\ EntityUnchanged

\* Step 4, the next email of all_unique_emails: the customer lookup
RLookupCustomer(r) ==
    /\ pc[r] = "r_customer"
    /\ \E email \in loc[r].emails :
       \E existing \in { FindCustomer(Store, EntityUser, email) } :
       \E domain \in { extract_domain_from_email(email) } :
          IF existing # {}
          THEN /\ loc' = [ loc EXCEPT
                             ![r].emails = @ \ { email },
                             ![r].email_to_customer_id =
                                 (email :> (CHOOSE c \in existing : TRUE).customer_id) @@ @ ]
               /\ pc' = pc
          ELSE IF domain = <<>>
          THEN \* "Could not create or find company": an error, the next email
               /\ loc' = [ loc EXCEPT ![r].emails = @ \ { email }, ![r].errors = @ + 1 ]
               /\ pc' = pc
          ELSE /\ loc' = [ loc EXCEPT ![r].emails = @ \ { email }, ![r].email = email,
                                      ![r].domain = domain, ![r].company_id = Null ]
               /\ Goto(r, "r_company")
    /\ UNCHANGED << stages, writes, companies, customers, participants, links, jobs >>
    /\ EntityUnchanged

\* Step 4: the company lookup for the email's domain; domain_to_company_id keeps
\* the company ids the run has obtained
RLookupCompany(r) ==
    /\ pc[r] = "r_company"
    /\ \E known \in { FindCompany(Store, EntityUser, loc[r].domain) } :
          IF known # {}
          THEN /\ loc' = [ loc EXCEPT
                             ![r].company_id = (CHOOSE c \in known : TRUE).company_id,
                             ![r].domain_to_company_id =
                                 (loc[r].domain :> (CHOOSE c \in known : TRUE).company_id) @@ @ ]
               /\ Goto(r, "r_ins_customer")
          ELSE /\ loc' = loc
               /\ Goto(r, "r_ins_company")
    /\ UNCHANGED << stages, writes, companies, customers, participants, links, jobs >>
    /\ EntityUnchanged

\* Step 4: just-in-time company creation; a raised insert ends this email
RInsertCompany(r) ==
    /\ pc[r] = "r_ins_company"
    /\ \E row \in { CompanyData(companies, EntityUser, loc[r].domain) } :
          IF CompanyConflict(companies, row)
          THEN /\ companies' = companies
               /\ loc' = [ loc EXCEPT ![r] = [ EmailFailed(@, loc[r].email) EXCEPT
                                                   !.lost = @ \cup { loc[r].domain } ] ]
               /\ Goto(r, "r_customer")
          ELSE /\ companies' = companies \cup { row }
               /\ loc' = [ loc EXCEPT ![r].company_id = row.company_id,
                                      ![r].domain_to_company_id =
                                          (loc[r].domain :> row.company_id) @@ @,
                                      ![r].created = @ \cup { loc[r].domain } ]
               /\ Goto(r, "r_ins_customer")
    /\ UNCHANGED << stages, writes, customers, participants, links, jobs >>
    /\ EntityUnchanged

\* Step 4: the customer insert; a raised insert ends this email
RInsertCustomer(r) ==
    /\ pc[r] = "r_ins_customer"
    /\ \E row \in { CustomerData(customers, EntityUser, loc[r].email, loc[r].company_id) } :
          IF CustomerConflict(customers, row)
          THEN /\ customers' = customers
               /\ loc' = [ loc EXCEPT ![r] = [ EmailFailed(@, loc[r].email) EXCEPT
                                                   !.lost = @ \cup { loc[r].email } ] ]
          ELSE /\ customers' = customers \cup { row }
               /\ loc' = [ loc EXCEPT ![r].email_to_customer_id =
                                          (loc[r].email :> row.customer_id) @@ @,
                                      ![r].created = @ \cup { loc[r].email } ]
    /\ Goto(r, "r_customer")
    /\ UNCHANGED << stages, writes, companies, participants, links, jobs >>
    /\ EntityUnchanged

\* Step 5: the participants upsert
RParticipants(r) ==
    /\ pc[r] = "r_customer"
    /\ loc[r].emails = {}
    /\ participants' = UpsertParticipants(participants,
           { [ thread_id |-> loc[r].thread, customer_id |-> loc[r].email_to_customer_id[e],
               user_id |-> EntityUser ] :
               e \in loc[r].thread_emails \cap DOMAIN loc[r].email_to_customer_id })
    /\ Goto(r, "r_gate")
    /\ loc' = loc
    /\ UNCHANGED << stages, writes, companies, customers, links, jobs >>
    /\ EntityUnchanged

\* Steps 6 and 7: the gate, stage queued, the trigger handed to the transport
RGate(r) ==
    /\ pc[r] = "r_gate"
    /\ \E g \in { GateAndTrigger(Store, EntityUser, { loc[r].thread },
                                 [ t \in { loc[r].thread } |-> "dispatched" ],
                                 [ t \in { loc[r].thread } |-> LLMOne ],
                                 analyzeRep, NoResolve) } :
          /\ stages' = g.S.stages
          /\ writes' = g.S.writes
          /\ jobs' = g.S.jobs
    /\ Goto(r, "done")
    /\ loc' = [ loc EXCEPT ![r].success = TRUE ]
    /\ UNCHANGED << companies, customers, participants, links >>
    /\ EntityUnchanged

\* ---- process_thread_entities, store call by store call ----
\* Step 1: stage resolving_entities
PStage(r) ==
    /\ pc[r] = "idle"
    /\ WriteStage(loc[r].thread, "resolving_entities", "process")
    /\ Goto(r, "p_fetch")
    /\ loc' = [ loc EXCEPT ![r].kind = "process" ]
    /\ UNCHANGED << companies, customers, participants, links, jobs >>
    /\ EntityUnchanged

\* Step 4: the business domains of the participant emails
BusinessDomains(emails) ==
    { extract_domain_from_email(e) :
        e \in { x \in emails : is_business_domain(extract_domain_from_email(x)) } }

\* Steps 2 to 4: the messages, participant_emails, business_domains, email_to_domain
PFetch(r) ==
    /\ pc[r] = "p_fetch"
    /\ \E ms \in { messages[EntityUser][loc[r].thread] } :
          IF ms = <<>>
          THEN /\ Goto(r, "p_nomsg")
               /\ loc' = loc
          ELSE /\ Goto(r, "p_company")
               /\ \E es \in { UNION { MessageEmails(ms[i]) : i \in 1..Len(ms) } } :
                    loc' = [ loc EXCEPT
                               ![r].emails = es,
                               ![r].thread_emails = es,
                               ![r].domains = BusinessDomains(es),
                               ![r].email_to_domain =
                                   [ e \in { x \in es : is_business_domain(
                                                          extract_domain_from_email(x)) }
                                       |-> extract_domain_from_email(e) ] ]
    /\ UNCHANGED << stages, writes, companies, customers, participants, links, jobs >>
    /\ EntityUnchanged

\* "Update stage to 'queued' even if no messages", and return success
PNoMessages(r) ==
    /\ pc[r] = "p_nomsg"
    /\ WriteStage(loc[r].thread, "queued", "process")
    /\ Goto(r, "done")
    /\ loc' = [ loc EXCEPT ![r].success = TRUE ]
    /\ UNCHANGED << companies, customers, participants, links, jobs >>
    /\ EntityUnchanged

\* Step 5, the next business domain: the company lookup
PLookupCompany(r) ==
    /\ pc[r] = "p_company"
    /\ \E domain \in loc[r].domains :
       \E known \in { FindCompany(Store, EntityUser, domain) } :
          IF known # {}
          THEN /\ loc' = [ loc EXCEPT
                             ![r].domains = @ \ { domain },
                             ![r].domain_to_company_id =
                                 (domain :> (CHOOSE c \in known : TRUE).company_id) @@ @ ]
               /\ pc' = pc
          ELSE /\ loc' = [ loc EXCEPT ![r].domains = @ \ { domain }, ![r].domain = domain ]
               /\ Goto(r, "p_upsert")
    /\ UNCHANGED << stages, writes, companies, customers, participants, links, jobs >>
    /\ EntityUnchanged

\* Step 5: upsert(company_data, on_conflict="user_id,domain_name"): the row is
\* inserted, or the row holding the pair is rewritten and returned; when the
\* upsert call raises, the plain insert is tried next
PUpsertCompany(r, upsert_raises) ==
    /\ pc[r] = "p_upsert"
    /\ \E row \in { CompanyData(companies, EntityUser, loc[r].domain) } :
       \E held \in { FindCompany(Store, EntityUser, loc[r].domain) } :
          IF upsert_raises
          THEN /\ companies' = companies
               /\ loc' = loc
               /\ Goto(r, "p_insert")
          ELSE IF CompanyConflict(companies, row)
          THEN /\ companies' = companies
               /\ loc' = [ loc EXCEPT
                             ![r].domain_to_company_id =
                                 (loc[r].domain :> (CHOOSE c \in held : TRUE).company_id) @@ @ ]
               /\ Goto(r, "p_company")
          ELSE /\ companies' = companies \cup { row }
               /\ loc' = [ loc EXCEPT
                             ![r].domain_to_company_id =
                                 (loc[r].domain :> row.company_id) @@ @,
                             ![r].created = @ \cup { loc[r].domain } ]
               /\ Goto(r, "p_company")
    /\ UNCHANGED << stages, writes, customers, participants, links, jobs >>
    /\ EntityUnchanged

\* Step 5: the fallback insert; a duplicate-key error is ignored, and the domain
\* is left without a company id
PInsertCompany(r) ==
    /\ pc[r] = "p_insert"
    /\ \E row \in { CompanyData(companies, EntityUser, loc[r].domain) } :
          IF CompanyConflict(companies, row)
          THEN /\ companies' = companies
               /\ loc' = [ loc EXCEPT ![r].lost = @ \cup { loc[r].domain } ]
          ELSE /\ companies' = companies \cup { row }
               /\ loc' = [ loc EXCEPT
                             ![r].domain_to_company_id =
                                 (loc[r].domain :> row.company_id) @@ @,
                             ![r].created = @ \cup { loc[r].domain } ]
    /\ Goto(r, "p_company")
    /\ UNCHANGED << stages, writes, customers, participants, links, jobs >>
    /\ EntityUnchanged

\* the company id Step 6 has for an email: domain_to_company_id.get(domain), or Null
CompanyIdFor(l, email) ==
    IF email \in DOMAIN l.email_to_domain
       /\ l.email_to_domain[email] \in DOMAIN l.domain_to_company_id
    THEN l.domain_to_company_id[l.email_to_domain[email]]
    ELSE Null

\* update({"company_id": ..., "domain_match": ...}).eq("customer_id", id).eq("user_id", u)
SetCompany(rows, u, customer_id, company_id) ==
    { IF c.customer_id = customer_id /\ c.user_id = u
      THEN [ c EXCEPT !.company_id = company_id ] ELSE c : c \in rows }

\* Step 5 is over: on to the customers
PCompaniesDone(r) ==
    /\ pc[r] = "p_company"
    /\ loc[r].domains = {}
    /\ Goto(r, "p_customer")
    /\ loc' = loc
    /\ UNCHANGED << stages, writes, companies, customers, participants, links, jobs >>
    /\ EntityUnchanged

\* Step 6, the next participant email: the customer lookup
PLookupCustomer(r) ==
    /\ pc[r] = "p_customer"
    /\ \E email \in loc[r].emails :
       \E existing \in { FindCustomer(Store, EntityUser, email) } :
          IF existing # {}
          THEN /\ loc' = [ loc EXCEPT
                             ![r].emails = @ \ { email }, ![r].email = email,
                             ![r].email_to_customer_id =
                                 (email :> (CHOOSE c \in existing : TRUE).customer_id) @@ @ ]
               /\ pc' = [ pc EXCEPT ![r] = IF HasCompanyId(CompanyIdFor(loc[r], email))
                                           THEN "p_update" ELSE "p_customer" ]
          ELSE /\ loc' = [ loc EXCEPT ![r].emails = @ \ { email }, ![r].email = email ]
               /\ Goto(r, "p_ins_customer")
    /\ UNCHANGED << stages, writes, companies, customers, participants, links, jobs >>
    /\ EntityUnchanged

\* Step 6: the company of a customer that exists is set to the domain's company
PUpdateCustomer(r) ==
    /\ pc[r] = "p_update"
    /\ customers' = SetCompany(customers, EntityUser,
                               loc[r].email_to_customer_id[loc[r].email],
                               CompanyIdFor(loc[r], loc[r].email))
    /\ Goto(r, "p_customer")
    /\ loc' = loc
    /\ UNCHANGED << stages, writes, companies, participants, links, jobs >>
    /\ EntityUnchanged

\* Step 6: the customer insert; on a duplicate-key error the row is fetched
PInsertCustomer(r) ==
    /\ pc[r] = "p_ins_customer"
    /\ \E row \in { CustomerData(customers, EntityUser, loc[r].email,
                                 CompanyIdFor(loc[r], loc[r].email)) } :
          IF CustomerConflict(customers, row)
          THEN /\ customers' = customers
               /\ loc' = [ loc EXCEPT ![r].lost = @ \cup { loc[r].email } ]
               /\ Goto(r, "p_refetch")
          ELSE /\ customers' = customers \cup { row }
               /\ loc' = [ loc EXCEPT ![r].email_to_customer_id =
                                          (loc[r].email :> row.customer_id) @@ @,
                                      ![r].created = @ \cup { loc[r].email } ]
               /\ Goto(r, "p_customer")
    /\ UNCHANGED << stages, writes, companies, participants, links, jobs >>
    /\ EntityUnchanged

\* Step 6: "Customer already exists, fetching existing record"
PRefetchCustomer(r) ==
    /\ pc[r] = "p_refetch"
    /\ \E existing \in { FindCustomer(Store, EntityUser, loc[r].email) } :
          IF existing # {}
          THEN /\ loc' = [ loc EXCEPT
                             ![r].email_to_customer_id =
                                 (loc[r].email :> (CHOOSE c \in existing : TRUE).customer_id)
                                    @@ @ ]
               /\ pc' = [ pc EXCEPT ![r] = IF HasCompanyId(CompanyIdFor(loc[r], loc[r].email))
                                           THEN "p_update" ELSE "p_customer" ]
          ELSE /\ loc' = loc
               /\ Goto(r, "p_customer")
    /\ UNCHANGED << stages, writes, companies, customers, participants, links, jobs >>
    /\ EntityUnchanged

\* Step 7: one link per company of the thread; a duplicate-key error is ignored
PLinks(r) ==
    /\ pc[r] = "p_customer"
    /\ loc[r].emails = {}
    /\ links' = links \cup
         { row \in { [ thread_id |-> loc[r].thread,
                       company_id |-> loc[r].domain_to_company_id[d],
                       user_id |-> EntityUser ] : d \in DOMAIN loc[r].domain_to_company_id } :
             ~LinkConflict(links, row) }
    /\ Goto(r, "p_queued")
    /\ loc' = loc
    /\ UNCHANGED << stages, writes, companies, customers, participants, jobs >>
    /\ EntityUnchanged

\* Step 8: stage queued, success
PQueued(r) ==
    /\ pc[r] = "p_queued"
    /\ WriteStage(loc[r].thread, "queued", "process")
    /\ Goto(r, "done")
    /\ loc' = [ loc EXCEPT ![r].success = TRUE ]
    /\ UNCHANGED << companies, customers, participants, links, jobs >>
    /\ EntityUnchanged

NextEntities ==
    \E r \in EntityRuns :
       \/ RStage(r)
       \/ RFetch(r)
       \/ RNoMessages(r)
       \/ RLookupCustomer(r)
       \/ RLookupCompany(r)
       \/ RInsertCompany(r)
       \/ RInsertCustomer(r)
       \/ RParticipants(r)
       \/ RGate(r)
       \/ PStage(r)
       \/ PFetch(r)
       \/ PNoMessages(r)
       \/ PLookupCompany(r)
       \/ \E upsert_raises \in BOOLEAN : PUpsertCompany(r, upsert_raises)
       \/ PInsertCompany(r)
       \/ PCompaniesDone(r)
       \/ PLookupCustomer(r)
       \/ PUpdateCustomer(r)
       \/ PInsertCustomer(r)
       \/ PRefetchCustomer(r)
       \/ PLinks(r)
       \/ PQueued(r)

SpecEntities == InitEntities /\ [][NextEntities]_vars

C14_BusinessCompaniesOnly ==
    \A c \in companies : is_business_domain(c.domain_name)

\* C15: no Customer row and no ThreadParticipant row is created for the tenant's
\* own email address
C15_SelfFiltered ==
    \A u \in Tenants :
       UserEmail(Store, u) # None =>
          /\ FindCustomer(Store, u, UserEmail(Store, u)) = {}
          /\ ~\E p \in participants, c \in customers :
                /\ p.user_id = u
                /\ c.user_id = u
                /\ p.customer_id = c.customer_id
                /\ c.email = UserEmail(Store, u)

\* C25: no step of a resolve_thread_entities or process_thread_entities run
\* erases a company association: a Customer row whose company id is non-null
\* before the step has a non-null company id after it
C25_CompanyNeverErased ==
    [][ \A c \in customers :
          c.company_id # Null =>
             \E d \in customers' : /\ d.customer_id = c.customer_id
                                   /\ d.user_id = c.user_id
                                   /\ d.company_id # Null ]_vars

\* C25 is exercised: a process_thread_entities run found a customer that another
\* run had linked to a company, had no company id for it itself, and has finished:
\* the customer still has its company
C25_Witness ==
    \E r \in EntityRuns :
       /\ loc[r].kind = "process"
       /\ pc[r] = "done"
       /\ \E c \in customers :
             /\ c.email \in DOMAIN loc[r].email_to_customer_id
             /\ c.email \notin loc[r].created
             /\ CompanyIdFor(loc[r], c.email) = Null
             /\ c.company_id # Null

(***************************************************************************)
(* SpecShared: two entity-resolution runs of one tenant on two threads     *)
(* that share the participant Al, interleaved store call by store call.    *)
(* Al is not yet known, or is a customer without a company.                *)
(***************************************************************************)
SharedThreads == { "t1", "t2" }

\* a customer row of Al that has no company
AlUnlinked == [ AlCustomer EXCEPT !.company_id = Null ]

InitShared ==
    /\ stages = [ u \in Tenants |-> [ t \in SharedThreads |-> "new" ] ]
    /\ threads = [ u \in Tenants |-> [ t \in SharedThreads |-> FreshThreadRow ] ]
    /\ messages \in [ Tenants -> [ SharedThreads -> { <<>>, << MsgFromAl(1, 0) >> } ] ]
    /\ profiles \in [ Tenants -> { AddrMe, None } ]
    /\ companies = {}
    /\ customers \in { {}, { AlUnlinked } }
    /\ participants = {}
    /\ links = {}
    /\ next_steps = {}
    /\ feature_requests = {}
    /\ assignments = {}
    /\ jobs = [ u \in Tenants |-> [ t \in SharedThreads |-> 0 ] ]
    /\ writes = {}
    /\ now = 1
    /\ ops = 0
    /\ resolveRep = NoResolve
    /\ prevResolve = NoResolve
    /\ analyzeRep = NoAnalysis
    /\ tinput = <<>>
    /\ toutput = <<>>
    /\ pc = [ r \in EntityRuns |-> "idle" ]
    /\ loc = [ r \in EntityRuns |->
                 [ NoLocals EXCEPT !.thread = IF r = "r1" THEN "t1" ELSE "t2" ] ]

SpecShared == InitShared /\ [][NextEntities]_vars

(***************************************************************************)
(* Properties of runs that share a participant (SpecShared).               *)
(***************************************************************************)
SharedDone == \A r \in EntityRuns : pc[r] = "done"

\* the emails of run r's thread that one of its refused inserts was about: the
\* customer's email, or an email of the company's domain
RacedFor(r) ==
    { e \in loc[r].thread_emails :
        e \in loc[r].lost \/ extract_domain_from_email(e) \in loc[r].lost }

\* run r reused the rows of email e: its customer is linked to the company of
\* its domain and, for resolve_thread_entities, is a participant of r's thread
Reused(r, e) ==
    \E c \in FindCustomer(Store, EntityUser, e) :
       /\ \E k \in FindCompany(Store, EntityUser, extract_domain_from_email(e)) :
             c.company_id = k.company_id
       /\ loc[r].kind = "resolve" =>
             \E p \in participants : /\ p.thread_id = loc[r].thread
                                     /\ p.customer_id = c.customer_id
                                     /\ p.user_id = EntityUser

\* C22: when two runs on distinct threads share a not-yet-known participant and an
\* insert of one of them meets a duplicate-key error, that run reuses the
\* existing row: its thread has a participant row for the customer, the customer
\* is linked to the company, and its report lists no error
C22_CreateRaceIsSuccess ==
    SharedDone =>
       \A r \in EntityRuns :
          loc[r].lost # {} =>
             /\ loc[r].errors = 0
             /\ \A e \in RacedFor(r) : Reused(r, e)

\* the customers of run r's thread that existed before the runs, whose domain is
\* a business domain for which run r has obtained a company id
ImprovableBy(r) ==
    { c \in customers :
        /\ c.user_id = EntityUser
        /\ c.email \in loc[r].thread_emails
        /\ \A q \in EntityRuns : c.email \notin loc[q].created
        /\ is_business_domain(extract_domain_from_email(c.email))
        /\ extract_domain_from_email(c.email) \in DOMAIN loc[r].domain_to_company_id }

\* C26: when a run has resolved a Company for the business domain of a Customer
\* that existed with a null company id, the customer's company id is that
\* company's id after the run
C26_ExistingCustomerImproved ==
    \A r \in EntityRuns :
       pc[r] = "done" =>
          \A c \in ImprovableBy(r) :
             c.company_id = loc[r].domain_to_company_id[extract_domain_from_email(c.email)]

(***************************************************************************)
(* SpecIsolation: two tenants whose mailboxes hold a thread with the same  *)
(* thread id; either tenant's analysis runs.                               *)
(***************************************************************************)
MaxIsoRuns == 2

IsoTenants == { "u1", "u2" }
IsoThread == "t1"
IsoLLM == { LLMError, LLMOne, LLMVariantOnly }

\* what a resolve run left for tenant u2, whose thread has the participant Bo
BoCompany ==
    [ company_id |-> 2, user_id |-> "u2", domain_name |-> AcmeIo,
      company_name |-> CompanyName(AcmeIo) ]
BoCustomer ==
    [ customer_id |-> 2, user_id |-> "u2", email |-> EmailBo,
      full_name |-> extract_local_part_from_email(EmailBo), company_id |-> 2 ]
BoParticipant == [ thread_id |-> IsoThread, customer_id |-> 2, user_id |-> "u2" ]
BoLink == [ thread_id |-> IsoThread, company_id |-> 2, user_id |-> "u2" ]

InitIsolation ==
    /\ stages \in [ IsoTenants -> [ { IsoThread } -> { "queued", NoRecord } ] ]
    /\ threads = [ u \in IsoTenants |-> [ t \in { IsoThread } |-> FreshThreadRow ] ]
    /\ messages \in [ IsoTenants -> [ { IsoThread } ->
                                       { << MsgFromAl(1, 0) >>, << MsgFromAl(1, Null) >> } ] ]
    /\ profiles = [ u \in IsoTenants |-> AddrMe ]
    /\ companies = { AlCompany, BoCompany }
    /\ customers = { AlCustomer, BoCustomer }
    /\ participants = { AlParticipant, BoParticipant }
    /\ links \in { {}, { BoLink } }
    /\ next_steps = {}
    /\ feature_requests = {}
    /\ assignments = {}
    /\ jobs = [ u \in IsoTenants |-> [ t \in { IsoThread } |-> 0 ] ]
    /\ writes = {}
    /\ now = 1
    /\ ops = 0
    /\ resolveRep = NoResolve
    /\ prevResolve = NoResolve
    /\ analyzeRep = NoAnalysis
    /\ tinput = <<>>
    /\ toutput = <<>>
    /\ pc = <<>>
    /\ loc = <<>>

\* analyze_thread(u, IsoThread) is called for either tenant; loc keeps the store
\* the call started from and its arguments
AnalyzeIso(u, llm) ==
    /\ ops < MaxIsoRuns
    /\ \E r \in { analyze_thread(Store, u, IsoThread, llm) } :
          /\ SetStore(r.S)
          /\ analyzeRep' = r.rep
    /\ ops' = ops + 1
    /\ loc' = [ S |-> Store, user |-> u, llm |-> llm ]
    /\ UNCHANGED << resolveRep, prevResolve, tinput, toutput, pc >>

NextIsolation == \E u \in IsoTenants, llm \in IsoLLM : AnalyzeIso(u, llm)

SpecIsolation == InitIsolation /\ [][NextIsolation]_vars

(***************************************************************************)
(* Properties of tenant isolation (SpecIsolation).                         *)
(***************************************************************************)
\* the store without the rows tenant b owns
WithoutTenant(S, b) ==
    [ S EXCEPT !.companies = { r \in @ : r.user_id # b },
               !.customers = { r \in @ : r.user_id # b },
               !.participants = { r \in @ : r.user_id # b },
               !.links = { r \in @ : r.user_id # b },
               !.next_steps = { r \in @ : r.user_id # b },
               !.feature_requests = { r \in @ : r.user_id # b } ]

\* the rows tenant b owns
RowsOf(S, b) ==
    [ companies |-> { r \in S.companies : r.user_id = b },
      customers |-> { r \in S.customers : r.user_id = b },
      participants |-> { r \in S.participants : r.user_id = b },
      links |-> { r \in S.links : r.user_id = b },
      next_steps |-> { r \in S.next_steps : r.user_id = b },
      feature_requests |-> { r \in S.feature_requests : r.user_id = b },
      stage |-> S.stages[b], thread |-> S.threads[b] ]

\* the outcome of a run r that started from store S: the next steps and feature
\* requests it inserted, the customers it assigned, the companies whose health
\* score it had recalculated
Outcome(S, r) ==
    [ next_steps |-> { x.description : x \in r.S.next_steps \ S.next_steps },
      feature_requests |-> { x.title : x \in r.S.feature_requests \ S.feature_requests },
      assigned |-> { x.customer_id : x \in r.S.assignments \ S.assignments },
      health |-> r.rep.health,
      success |-> r.rep.success ]

\* a run of tenant a from store S is isolated from tenant b
Isolated(S, a, b, llm) ==
    \E r \in { analyze_thread(S, a, IsoThread, llm) } :
    \E S0 \in { WithoutTenant(S, b) } :
    \E r0 \in { analyze_thread(S0, a, IsoThread, llm) } :
       /\ Outcome(S, r) = Outcome(S0, r0)
       /\ RowsOf(r.S, b) = RowsOf(S, b)
       /\ r.rep.health \subseteq { c.company_id : c \in RowsOf(S, a).companies }

\* C16: what analyze_thread(tenant a, thread t) inserts, assigns and recalculates
\* does not depend on, and does not touch, the rows of another tenant b that
\* has a thread with the same id
C16_TenantIsolation ==
    loc # <<>> =>
       \A b \in IsoTenants \ { loc.user } : Isolated(loc.S, loc.user, b, loc.llm)

(***************************************************************************)
(* SpecProgress: the resolution pipeline of Spec, where the job transport  *)
(* runs every task it was handed.                                          *)
(***************************************************************************)
JobsRun == \E u \in Tenants, t \in PipelineThreads, llm \in PipelineLLM : RunJob(u, t, llm)

SpecProgress == Init /\ [][Next]_vars /\ WF_vars(JobsRun)

\* resolve_thread_entities has returned for a batch that holds thread t, t has a
\* stage record, and the trigger of t, if any, was handed over or run in-process
Submitted(u, t) ==
    /\ resolveRep.called
    /\ resolveRep.user = u
    /\ t \in resolveRep.batch
    /\ resolveRep.pre_stages[t] # NoRecord
    /\ (t \in DOMAIN resolveRep.modes => resolveRep.modes[t] # "import_error")

Terminal(u, t) == stages[u][t] \in { "completed", "failed" }

\* C17: every thread with a stage record that was submitted to
\* resolve_thread_entities eventually reaches stage completed or failed, a
\* thread without messages included
C17_PipelineProgress ==
    \A u \in Tenants, t \in PipelineThreads : Submitted(u, t) ~> Terminal(u, t)

(***************************************************************************)
(* Properties of the trigger (Spec).                                       *)
(***************************************************************************)
\* the threads of the last resolve call whose trigger took the fallback path (the
\* transport unconfigured, or its dispatch failed) and that have a stage record
FellBack ==
    { t \in resolveRep.queued :
        /\ resolveRep.modes[t] # "dispatched"
        /\ resolveRep.pre_stages[t] # NoRecord }

\* C18: when the trigger of a thread takes the fallback path and returns without
\* raising, the thread has been analysed in-process (its stage is completed or
\* failed as resolve returns) and resolve counts it in jobs_triggered
C18_TriggerFallback ==
    resolveRep.called =>
       /\ \A t \in FellBack : resolveRep.post_stages[t] \in { "completed", "failed" }
       /\ resolveRep.jobs_triggered = Cardinality(resolveRep.queued)

(***************************************************************************)
(* SpecConfig: analysis runs and analysis jobs in a process whose          *)
(* environment may lack the store credentials or the LLM API key.          *)
(***************************************************************************)
MaxConfigRuns == 2

\* the environment of a process: are SUPABASE_URL and SUPABASE_SERVICE_ROLE_KEY
\* set, is GEMINI_API_KEY set
Configs == [ store : BOOLEAN, llm : BOOLEAN ]

\* get_supabase_client(): TRUE when it returns a client, FALSE when it raises
get_supabase_client(cfg) == cfg.store

\* get_gemini_client(): TRUE when it returns a client, FALSE when it raises
get_gemini_client(cfg) == cfg.llm

\* analyze_thread(user_id, thread_id) in environment cfg: both clients are
\* created before the try block, so a missing variable raises out of the call
ConfiguredAnalyze(S, u, t, llm, cfg) ==
    IF ~get_supabase_client(cfg) \/ ~get_gemini_client(cfg)
    THEN [ S |-> S, rep |-> [ NoAnalysis EXCEPT !.called = TRUE, !.user = u, !.thread = t,
                                                !.pre_stage = S.stages[u][t],
                                                !.post_stage = S.stages[u][t],
                                                !.failure = "config" ],
           raised |-> TRUE ]
    ELSE Then(analyze_thread(S, u, t, llm), LAMBDA r :
           [ S |-> r.S, rep |-> r.rep, raised |-> FALSE ])

\* run_analyze_thread_job(payload) in environment cfg: the store client, stage
\* analyzing, analyze_thread; whatever analyze_thread raises is answered by
\* stage failed and raised again
ConfiguredJob(S, u, t, llm, cfg) ==
    IF ~get_supabase_client(cfg)
    THEN [ S |-> S, rep |-> [ NoAnalysis EXCEPT !.called = TRUE, !.failure = "config" ],
           raised |-> TRUE ]
    ELSE Then(UpdateStages(S, u, {t}, "analyzing", "job"), LAMBDA S1 :
         Then(ConfiguredAnalyze(S1, u, t, llm, cfg), LAMBDA r :
           IF r.raised
           THEN [ r EXCEPT !.S = UpdateStages(r.S, u, {t}, "failed", "job"),
                           !.rep.post_stage = UpdateStages(r.S, u, {t}, "failed", "job")
                                                 .stages[u][t] ]
           ELSE r))

\* one invocation: loc keeps what it was, its environment, and the stages and the
\* stage writes before it
Invoke(op, u, t, llm, cfg) ==
    /\ ops < MaxConfigRuns
    /\ \E r \in { IF op = "job" THEN ConfiguredJob(Store, u, t, llm, cfg)
                  ELSE ConfiguredAnalyze(Store, u, t, llm, cfg) } :
          /\ SetStore(r.S)
          /\ analyzeRep' = r.rep
          /\ loc' = [ op |-> op, cfg |-> cfg, raised |-> r.raised,
                      stages |-> stages, writes |-> writes ]
    /\ ops' = ops + 1
    /\ UNCHANGED << resolveRep, prevResolve, tinput, toutput, pc >>

NextConfig ==
    \E op \in { "job", "analyze" }, u \in Tenants, t \in AnalyzeThreads,
       llm \in PipelineLLM, cfg \in Configs :
         Invoke(op, u, t, llm, cfg)

SpecConfig == InitAnalyze /\ [][NextConfig]_vars

\* the last invocation failed on a missing configuration variable
ConfigError ==
    /\ loc # <<>>
    /\ loc.raised
    /\ (~loc.cfg.store \/ ~loc.cfg.llm)

\* C19: an invocation that fails on missing configuration has changed no
\* thread's current_stage and has made no stage write
C19_ConfigErrorBeforeStageWrite ==
    ConfigError => (stages = loc.stages /\ writes = loc.writes)

(***************************************************************************)
(* SpecExtract: the identity-extraction functions applied to one address   *)
(* field.  tinput is the call, toutput what it returns.                    *)
(***************************************************************************)
MaxAddrLen == 4
MaxListLen == 2

\* the characters of an address field: the brackets, a letter, a blank
AddrChars == { "<", ">", "A", " " }

\* every address field of at most MaxAddrLen characters
AddressFields == UNION { [ 1..k -> AddrChars ] : k \in 0..MaxAddrLen }

\* the address strings that recipient lists are made of: "A", "<A>", " "
ListItems == { << "A" >>, << "<", "A", ">" >>, << " " >> }

Lists == UNION { [ 1..k -> ListItems ] : k \in 0..MaxListLen }

\* json.dumps of a list of strings
RECURSIVE JoinItems(_)
JoinItems(items) ==
    IF items = <<>> THEN <<>>
    ELSE << "\"" >> \o Head(items) \o << "\"" >>
         \o (IF Len(items) > 1 THEN << "," >> ELSE <<>>) \o JoinItems(Tail(items))

JsonText(items) == << "[" >> \o JoinItems(items) \o << "]" >>

\* a JSON text cut short: its last character is lost
Truncated(text) == SubSeq(text, 1, Len(text) - 1)

\* the values of a to_addresses or cc_addresses field: missing, a decoded list,
\* a JSON-encoded list, a truncated JSON text, a single address, a JSON number,
\* a value of another type
JsonFields ==
    { JsonNone, JsonOther, JsonStr(<< "7" >>), JsonStr(<<>>) }
    \cup { JsonList(l) : l \in Lists }
    \cup { JsonStr(JsonText(l)) : l \in Lists }
    \cup { JsonStr(Truncated(JsonText(l))) : l \in Lists }
    \cup { JsonStr(a) : a \in ListItems }

InitExtract ==
    /\ EmptyTables(AnalyzeThreads)
    /\ stages = [ u \in Tenants |-> [ t \in AnalyzeThreads |-> NoRecord ] ]
    /\ messages = [ u \in Tenants |-> [ t \in AnalyzeThreads |-> <<>> ] ]
    /\ profiles = [ u \in Tenants |-> None ]
    /\ now = 1
    /\ tinput \in { [ fn |-> "address", arg |-> a ] : a \in AddressFields \cup { None } }
                  \cup { [ fn |-> "json", arg |-> j ] : j \in JsonFields }
    /\ toutput = <<>>
    /\ pc = <<>>
    /\ loc = <<>>

\* the function is applied to the field
Extract ==
    /\ ops = 0
    /\ toutput' = IF tinput.fn = "address" THEN extract_email_from_address(tinput.arg)
                  ELSE extract_emails_from_json(tinput.arg)
    /\ ops' = 1
    /\ UNCHANGED << stages, threads, messages, profiles, companies, customers,
                    participants, links, next_steps, feature_requests, assignments, jobs,
                    writes, now, resolveRep, prevResolve, analyzeRep, tinput, pc, loc >>

NextExtract == Extract

SpecExtract == InitExtract /\ [][NextExtract]_vars

\* the field holds a "<" with a ">" somewhere after it
HasAnglePair(a) == \E i, j \in 1..Len(a) : i < j /\ a[i] = "<" /\ a[j] = ">"

\* the text strictly between the first "<" and the first ">" after it
BetweenAngles(a) ==
    LET i == CHOOSE k \in 1..Len(a) : a[k] = "<" /\ \A m \in 1..(k - 1) : a[m] # "<"
        j == CHOOSE k \in (i + 1)..Len(a) :
                a[k] = ">" /\ \A m \in (i + 1)..(k - 1) : a[m] # ">"
    IN SubSeq(a, i + 1, j - 1)

\* what extract_email_from_address is specified to return
SpecifiedAddress(a) ==
    IF a = None \/ a = <<>> THEN None
    ELSE IF HasAnglePair(a) THEN BetweenAngles(a)
    ELSE Strip(a)

\* the lower-cased addresses of a list of address strings
SpecifiedEmails(items) ==
    { Lower(SpecifiedAddress(items[i])) :
        i \in { j \in 1..Len(items) : SpecifiedAddress(items[j]) \notin { None, <<>> } } }

\* a text that opens a JSON array and is not valid JSON
Malformed(text) == text # <<>> /\ text[1] = "[" /\ ~json_loads(text).ok

\* what extract_emails_from_json is specified to return
SpecifiedJson(v) ==
    IF v.type = "list" THEN SpecifiedEmails(v.items)
    ELSE IF v.type # "str" \/ v.text = <<>> \/ Malformed(v.text) THEN {}
    ELSE IF json_loads(v.text).ok
    THEN IF json_loads(v.text).kind = "list" THEN SpecifiedEmails(json_loads(v.text).items)
         ELSE {}
    ELSE SpecifiedEmails(<< v.text >>)

\* C20: extract_email_from_address returns the text strictly between "<" and ">"
\* of a field that holds an angle-bracket pair, the trimmed field otherwise, and
\* no result for an empty field or None; extract_emails_from_json returns the
\* lower-cased addresses of a list, of a JSON-encoded list or of a single string,
\* and the empty set for empty or malformed input
C20_IdentityExtraction ==
    ops = 1 =>
       IF tinput.fn = "address" THEN toutput = SpecifiedAddress(tinput.arg)
       ELSE toutput = SpecifiedJson(tinput.arg)

(***************************************************************************)
(* SpecDomain: is_business_domain (processor.py) applied to one domain.    *)
(* tinput is the domain, toutput what the function returns.                *)
(***************************************************************************)
\* a provider's domain with the character at position k in upper case (k = 0:
\* none, k > Len: all of them)
UpperAt(p, k) ==
    [ i \in 1..Len(p) |-> IF i = k \/ k > Len(p) THEN UpperChar(p[i]) ELSE p[i] ]

\* a domain that differs from a provider's by one missing character
Without(p, k) == SubSeq(p, 1, k - 1) \o SubSeq(p, k + 1, Len(p))

\* the domains classified: none, every provider in several casings, domains one
\* character short of a provider's, a provider's domain inside a longer one, and
\* a company's
Domains ==
    { <<>>, AcmeIo, Capitalize(AcmeIo), << "m","a","i","l","." >> \o GmailCom,
      GmailCom \o << "." >>, << " " >> \o GmailCom }
    \cup UNION { { UpperAt(p, k) : k \in 0..(Len(p) + 1) } : p \in COMMON_EMAIL_PROVIDERS }
    \cup UNION { { Without(p, k) : k \in 1..Len(p) } : p \in COMMON_EMAIL_PROVIDERS }

InitDomain ==
    /\ EmptyTables(AnalyzeThreads)
    /\ stages = [ u \in Tenants |-> [ t \in AnalyzeThreads |-> NoRecord ] ]
    /\ messages = [ u \in Tenants |-> [ t \in AnalyzeThreads |-> <<>> ] ]
    /\ profiles = [ u \in Tenants |-> None ]
    /\ now = 1
    /\ tinput \in Domains
    /\ toutput = <<>>
    /\ pc = <<>>
    /\ loc = <<>>

\* the function is applied to the domain
Classify ==
    /\ ops = 0
    /\ toutput' = is_business_domain(tinput)
    /\ ops' = 1
    /\ UNCHANGED << stages, threads, messages, profiles, companies, customers,
                    participants, links, next_steps, feature_requests, assignments, jobs,
                    writes, now, resolveRep, prevResolve, analyzeRep, tinput, pc, loc >>

NextDomain == Classify

SpecDomain == InitDomain /\ [][NextDomain]_vars

\* two texts that differ in the case of their letters at most
SameIgnoringCase(a, b) ==
    /\ Len(a) = Len(b)
    /\ \A i \in 1..Len(a) : a[i] = b[i] \/ UpperChar(a[i]) = b[i] \/ a[i] = UpperChar(b[i])

OnDenyList(d) == \E p \in COMMON_EMAIL_PROVIDERS : SameIgnoringCase(d, p)

\* C21: is_business_domain(d) is false for the empty domain and for every domain
\* on the deny-list, compared case-insensitively, and true for every other
\* non-empty domain
C21_DomainClassification ==
    ops = 1 => toutput = (tinput # <<>> /\ ~OnDenyList(tinput))

\* C21 is exercised: a provider's domain written with a capital was classified as
\* not a business domain
C21_Witness ==
    /\ ops = 1
    /\ tinput \notin COMMON_EMAIL_PROVIDERS
    /\ OnDenyList(tinput)
    /\ toutput = FALSE

(***************************************************************************)
(* SpecEntityFaults: the runs of SpecShared, where a store call may raise. *)
(* A run meets at most one failure outside its per-email try blocks, and   *)
(* any number inside them.                                                 *)
(***************************************************************************)
\* the outer except branch: the report fails, and stage failed is written unless
\* that write raises too (failed_write_ok)
Fatal(r, call, by, n_errors, failed_write_ok) ==
    /\ loc[r].raised = "none"
    /\ IF failed_write_ok THEN WriteStage(loc[r].thread, "failed", by)
       ELSE UNCHANGED << stages, writes >>
    /\ Goto(r, "done")
    /\ loc' = [ loc EXCEPT ![r].kind = by, ![r].errors = @ + n_errors,
                           ![r].success = FALSE, ![r].raised = call ]
    /\ UNCHANGED << companies, customers, participants, links, jobs >>
    /\ EntityUnchanged

\* a step that changes the run's position and locals only
Local(r, label, l) ==
    /\ Goto(r, label)
    /\ loc' = [ loc EXCEPT ![r] = l ]
    /\ UNCHANGED << stages, writes, companies, customers, participants, links, jobs >>
    /\ EntityUnchanged

\* ---- resolve_thread_entities ----
\* Step 1 raises
RStageRaises(r, failed_write_ok) ==
    /\ pc[r] = "idle"
    /\ Fatal(r, "stage_1", "resolve", 1, failed_write_ok)

\* Step 2: the profiles query raises, the run goes on without the tenant's email
RProfileRaises(r) ==
    /\ pc[r] = "r_fetch"
    /\ loc[r].raised = "none"
    /\ messages[EntityUser][loc[r].thread] # <<>>
    /\ \E es \in { ThreadEmails([ Store EXCEPT !.profiles[EntityUser] = None ],
                                EntityUser, loc[r].thread) } :
          Local(r, "r_customer", [ loc[r] EXCEPT !.emails = es, !.thread_emails = es,
                                                 !.raised = "profile" ])

\* Step 2: the thread_messages query raises
RFetchRaises(r, failed_write_ok) ==
    /\ pc[r] = "r_fetch"
    /\ Fatal(r, "messages", "resolve", 1, failed_write_ok)

\* Step 4: the customer lookup of an email raises
RLookupCustomerRaises(r) ==
    /\ pc[r] = "r_customer"
    /\ \E email \in loc[r].emails :
          Local(r, "r_customer", EmailFailed([ loc[r] EXCEPT !.emails = @ \ { email } ], email))

\* Step 4: the company lookup, the company insert or the customer insert raises
RCreateRaises(r) ==
    /\ pc[r] \in { "r_company", "r_ins_company", "r_ins_customer" }
    /\ Local(r, "r_customer", EmailFailed(loc[r], loc[r].email))

\* Step 5: the upsert raises, and so does each single insert tried after it
RParticipantsRaises(r) ==
    /\ pc[r] = "r_customer"
    /\ loc[r].emails = {}
    /\ loc[r].raised = "none"
    /\ Local(r, "r_gate", [ loc[r] EXCEPT !.raised = "participants" ])

\* Step 6: the stage read of the gate raises
RGateReadRaises(r, failed_write_ok) ==
    /\ pc[r] = "r_gate"
    /\ Fatal(r, "gate_read", "resolve", 1, failed_write_ok)

\* Step 7: the write of stage queued raises: no trigger is sent
RQueueRaises(r) ==
    /\ pc[r] = "r_gate"
    /\ loc[r].raised = "none"
    /\ ~GateSkips(stages[EntityUser][loc[r].thread])
    /\ Local(r, "done", [ loc[r] EXCEPT !.errors = @ + 1, !.success = FALSE,
                                        !.raised = "queue_write" ])

\* Step 7: the trigger raises: the job, called in-process without an LLM API
\* key, writes analyzing, then failed, and raises
RTriggerRaises(r) ==
    /\ pc[r] = "r_gate"
    /\ loc[r].raised = "none"
    /\ ~GateSkips(stages[EntityUser][loc[r].thread])
    /\ \E S7 \in { UpdateStages(Store, EntityUser, { loc[r].thread }, "queued", "resolve") } :
       \E j \in { ConfiguredJob(S7, EntityUser, loc[r].thread, LLMOne,
                                [ store |-> TRUE, llm |-> FALSE ]) } :
          /\ stages' = j.S.stages
          /\ writes' = j.S.writes
    /\ Goto(r, "done")
    /\ loc' = [ loc EXCEPT ![r].errors = @ + 1, ![r].success = TRUE,
                           ![r].raised = "trigger" ]
    /\ UNCHANGED << companies, customers, participants, links, jobs >>
    /\ EntityUnchanged

\* ---- process_thread_entities ----
\* Step 1 raises: the error is recorded and the run goes on
PStageRaises(r) ==
    /\ pc[r] = "idle"
    /\ loc[r].raised = "none"
    /\ Local(r, "p_fetch", [ loc[r] EXCEPT !.kind = "process", !.errors = @ + 1,
                                           !.raised = "stage_1" ])

\* Step 2: the thread_messages query raises, and is raised again
PFetchRaises(r, failed_write_ok) ==
    /\ pc[r] = "p_fetch"
    /\ Fatal(r, "messages", "process", 2, failed_write_ok)

\* Step 5: the company lookup of a domain raises
PCompanyRaises(r) ==
    /\ pc[r] = "p_company"
    /\ \E domain \in loc[r].domains :
          Local(r, "p_company", [ loc[r] EXCEPT !.domains = @ \ { domain },
                                                !.errors = @ + 1 ])

\* Step 6: the customer lookup of an email raises
PCustomerRaises(r) ==
    /\ pc[r] = "p_customer"
    /\ \E email \in loc[r].emails :
          Local(r, "p_customer", [ loc[r] EXCEPT !.emails = @ \ { email },
                                                 !.errors = @ + 1,
                                                 !.failed = @ \cup { email } ])

\* Step 8: the write of stage queued raises: the run still succeeds
PQueuedRaises(r) ==
    /\ pc[r] = "p_queued"
    /\ loc[r].raised = "none"
    /\ Local(r, "done", [ loc[r] EXCEPT !.errors = @ + 1, !.success = TRUE,
                                        !.raised = "queue_write" ])

NextEntityFaults ==
    \/ NextEntities
    \/ \E r \in EntityRuns :
          \/ \E failed_write_ok \in BOOLEAN : RStageRaises(r, failed_write_ok)
          \/ RProfileRaises(r)
          \/ \E failed_write_ok \in BOOLEAN : RFetchRaises(r, failed_write_ok)
          \/ RLookupCustomerRaises(r)
          \/ RCreateRaises(r)
          \/ RParticipantsRaises(r)
          \/ \E failed_write_ok \in BOOLEAN : RGateReadRaises(r, failed_write_ok)
          \/ RQueueRaises(r)
          \/ RTriggerRaises(r)
          \/ PStageRaises(r)
          \/ \E failed_write_ok \in BOOLEAN : PFetchRaises(r, failed_write_ok)
          \/ PCompanyRaises(r)
          \/ PCustomerRaises(r)
          \/ PQueuedRaises(r)

SpecEntityFaults == InitShared /\ [][NextEntityFaults]_vars

(***************************************************************************)
(* Properties of failing resolution runs (SpecEntityFaults).               *)
(***************************************************************************)
\* resolution has written stage failed for the thread of run r
MarkedFailed(r) ==
    \E w \in writes : /\ w.thread = loc[r].thread
                      /\ w.to = "failed"
                      /\ w.by \in { "resolve", "process" }

\* C23: resolution marks a thread's stage failed only when a fatal failure
\* occurs before step 1 completes; a failure at a later step (profile or message
\* fetch, entity creation, participant linking, the gate's stage read, the queue
\* write, the trigger) never sets the stage to failed
C23_FailedOnlyBeforeStep1 ==
    \A r \in EntityRuns : MarkedFailed(r) => loc[r].raised = "stage_1"

\* a finished resolve run in which the resolution of an email failed, and
\* nothing else did
EmailFailedIn(r) ==
    /\ pc[r] = "done"
    /\ loc[r].kind = "resolve"
    /\ loc[r].raised = "none"
    /\ loc[r].failed # {}

\* email e of the thread of run r has a customer, linked to the thread
ResolvedAndLinked(r, e) ==
    /\ e \in DOMAIN loc[r].email_to_customer_id
    /\ \E c \in FindCustomer(Store, EntityUser, e) :
       \E p \in participants : /\ p.thread_id = loc[r].thread
                               /\ p.customer_id = c.customer_id
                               /\ p.user_id = EntityUser

\* the thread of run r was advanced to queued by the run, and triggered
QueuedAndTriggered(r) ==
    /\ \E w \in writes : /\ w.thread = loc[r].thread
                         /\ w.to = "queued"
                         /\ w.by = "resolve"
    /\ jobs[EntityUser][loc[r].thread] > 0

\* C24: when the lookup or the creation of the customer or company of one email
\* fails in resolve_thread_entities, the failure is appended to the report's
\* errors, every other email of the batch is still resolved and linked, and the
\* thread is still advanced to queued and triggered
C24_PerEntityTolerance ==
    \A r \in EntityRuns :
       EmailFailedIn(r) =>
          /\ loc[r].errors = Cardinality(loc[r].failed)
          /\ \A e \in loc[r].thread_emails \ loc[r].failed : ResolvedAndLinked(r, e)
          /\ QueuedAndTriggered(r)
          /\ loc[r].success

\* a run in which one email failed and another one was resolved
C24_Witness ==
    \E r \in EntityRuns :
       /\ EmailFailedIn(r)
       /\ loc[r].lost = {}
       /\ \E e \in loc[r].thread_emails \ loc[r].failed : ResolvedAndLinked(r, e)

(***************************************************************************)
(* SpecUrgency: analysis runs whose answer holds one feature request, of   *)
(* any urgency.                                                            *)
(***************************************************************************)
\* fr.get("urgency"): a value of the list, another text, or "" for a missing key
\* or null
UrgencyInputs == { "Low", "Medium", "High", "Urgent", "low", "" }

ExtractedRequests == [ title : { TitleSso, TitleSsoVariant }, urgency : UrgencyInputs ]

\* analyze_thread(u, t) is called directly; the answer holds the one feature
\* request item
AnalyzeRequest(u, t, item) ==
    /\ ops < MaxRuns
    /\ \E r \in { analyze_thread(Store, u, t,
                                 [ LLMEmpty EXCEPT !.feature_requests = << item >> ]) } :
          /\ SetStore(r.S)
          /\ analyzeRep' = r.rep
    /\ ops' = ops + 1
    /\ tinput' = item
    /\ UNCHANGED << resolveRep, prevResolve, toutput, pc, loc >>

NextUrgency ==
    \/ \E u \in Tenants, t \in AnalyzeThreads, item \in ExtractedRequests :
         AnalyzeRequest(u, t, item)
    \/ \E u \in Tenants, t \in AnalyzeThreads, date \in ArrivalDates \cup { now } :
         Ingest(u, t, date)
    \/ Tick

SpecUrgency == InitAnalyze /\ [][NextUrgency]_vars

\* the feature_requests rows that the last run inserted
InsertedRequests == { r \in feature_requests : r.fr_id \in analyzeRep.new_frs }

\* C31: every feature_requests row has urgency Low, Medium or High; an extracted
\* item whose urgency is missing or outside that set is stored with urgency Low:
\* it is not dropped, and the analysis succeeds
C31_UrgencyCoerced ==
    /\ \A r \in feature_requests : r.urgency \in { "Low", "Medium", "High" }
    /\ analyzeRep.llm_called =>
          /\ analyzeRep.success
          /\ \E r \in feature_requests :
                /\ r.thread_id = analyzeRep.thread
                /\ Normalize(r.title) = Normalize(tinput.title)
          /\ \A r \in InsertedRequests :
                /\ r.title = tinput.title
                /\ r.urgency = IF tinput.urgency \in { "Low", "Medium", "High" }
                               THEN tinput.urgency ELSE "Low"

\* C31 is exercised: an item without an urgency was stored as Low
C31_Witness ==
    /\ analyzeRep.llm_called
    /\ tinput \in ExtractedRequests
    /\ tinput.urgency = ""
    /\ \E r \in InsertedRequests : r.urgency = "Low"

(***************************************************************************)
(* SpecFanOut: analysis runs, with store failures, on a thread that has    *)
(* any of four participant rows and any of three company links.            *)
(***************************************************************************)
\* a second customer on the thread, a participant of another thread, and a row
\* of the thread under another tenant
CyParticipant == [ thread_id |-> "t1", customer_id |-> 3, user_id |-> "u1" ]
OtherThreadParticipant == [ thread_id |-> "t2", customer_id |-> 4, user_id |-> "u1" ]
OtherTenantParticipant == [ thread_id |-> "t1", customer_id |-> 5, user_id |-> "u2" ]

\* the links of the thread to two companies, and a link of another thread
AlLink == [ thread_id |-> "t1", company_id |-> 1, user_id |-> "u1" ]
CyLink == [ thread_id |-> "t1", company_id |-> 3, user_id |-> "u1" ]
OtherThreadLink == [ thread_id |-> "t2", company_id |-> 4, user_id |-> "u1" ]

InitFanOut ==
    /\ stages = [ u \in Tenants |-> [ t \in AnalyzeThreads |-> "queued" ] ]
    /\ threads = [ u \in Tenants |-> [ t \in AnalyzeThreads |-> FreshThreadRow ] ]
    /\ messages \in [ Tenants -> [ AnalyzeThreads ->
                                    { << MsgFromAl(1, 0) >>, << MsgFromAl(1, Null) >> } ] ]
    /\ profiles = [ u \in Tenants |-> AddrMe ]
    /\ companies = { AlCompany }
    /\ customers = { AlCustomer }
    /\ participants \in SUBSET { AlParticipant, CyParticipant, OtherThreadParticipant,
                                 OtherTenantParticipant }
    /\ links \in SUBSET { AlLink, CyLink, OtherThreadLink }
    /\ next_steps = {}
    /\ feature_requests = {}
    /\ assignments = {}
    /\ jobs = [ u \in Tenants |-> [ t \in AnalyzeThreads |-> 0 ] ]
    /\ writes = {}
    /\ now = 1
    /\ ops = 0
    /\ resolveRep = NoResolve
    /\ prevResolve = NoResolve
    /\ analyzeRep = NoAnalysis
    /\ tinput = <<>>
    /\ toutput = <<>>
    /\ pc = <<>>
    /\ loc = <<>>

SpecFanOut == InitFanOut /\ [][NextFaults]_vars

\* the distinct customers that take part in the thread of the last run
ParticipantCustomers ==
    { p.customer_id : p \in { q \in participants : /\ q.thread_id = analyzeRep.thread
                                                   /\ q.user_id = analyzeRep.user } }

\* one assignment per step the last run inserted and participant customer
FannedOut ==
    { [ next_step_id |-> s, customer_id |-> c ] :
        s \in analyzeRep.new_steps, c \in ParticipantCustomers }

LinkedCompanies == { l.company_id : l \in { k \in links : k.thread_id = analyzeRep.thread } }

\* the last run got to its health-score step, and the link query or the
\* recalculations failed there
HealthStepFailed ==
    /\ analyzeRep.llm_called
    /\ analyzeRep.failure = "none"
    /\ analyzeRep.fault \in { "health_lookup", "health_rpc" }

\* C33: if the company-link lookup or a health-score recalculation fails,
\* analyze_thread still returns success, the stage stays completed, and the
\* recalculation is attempted for every linked company when the lookup worked
C33_HealthBestEffort ==
    HealthStepFailed =>
       /\ analyzeRep.success
       /\ analyzeRep.errors = 0
       /\ analyzeRep.post_stage = "completed"
       /\ stages[analyzeRep.user][analyzeRep.thread] = "completed"
       /\ analyzeRep.fault = "health_rpc" => analyzeRep.health = LinkedCompanies

\* C33 is exercised: the recalculations of a thread with two linked companies
\* failed
C33_Witness ==
    /\ HealthStepFailed
    /\ analyzeRep.fault = "health_rpc"
    /\ Cardinality(LinkedCompanies) = 2
    /\ Cardinality(analyzeRep.health) = 2

(***************************************************************************)
(* SpecDomainOf: extract_domain_from_email applied to one address.         *)
(***************************************************************************)
MaxEmailLen == 4

\* the characters of an address: a lower-case letter, an upper-case letter, "@"
EmailChars == { "a", "B", "@" }

\* every address of at most MaxEmailLen characters
EmailTexts == UNION { [ 1..k -> EmailChars ] : k \in 0..MaxEmailLen }

InitDomainOf ==
    /\ EmptyTables(AnalyzeThreads)
    /\ stages = [ u \in Tenants |-> [ t \in AnalyzeThreads |-> NoRecord ] ]
    /\ messages = [ u \in Tenants |-> [ t \in AnalyzeThreads |-> <<>> ] ]
    /\ profiles = [ u \in Tenants |-> None ]
    /\ now = 1
    /\ tinput \in EmailTexts
    /\ toutput = <<>>
    /\ pc = <<>>
    /\ loc = <<>>

\* the function is applied to the address
ExtractDomain ==
    /\ ops = 0
    /\ toutput' = extract_domain_from_email(tinput)
    /\ ops' = 1
    /\ UNCHANGED << stages, threads, messages, profiles, companies, customers,
                    participants, links, next_steps, feature_requests, assignments, jobs,
                    writes, now, resolveRep, prevResolve, analyzeRep, tinput, pc, loc >>

NextDomainOf == ExtractDomain

SpecDomainOf == InitDomainOf /\ [][NextDomainOf]_vars

\* the text after the first "@" of an address that holds one
AfterFirstAt(email) == SubSeq(email, Find(email, "@") + 2, Len(email))

\* C35: extract_domain_from_email returns the lower-cased text after the first
\* "@" of the address, and the empty string for an address without "@"; also for
\* an address that holds more than one "@"
C35_DomainAfterFirstAt ==
    ops = 1 =>
       toutput = IF Contains(tinput, "@") THEN Lower(AfterFirstAt(tinput)) ELSE <<>>

(***************************************************************************)
(* SpecWatermark: the operations of the pipeline, one after the other, on  *)
(* a thread that starts in stage new or pending and was never analysed.    *)
(***************************************************************************)
InitWatermark ==
    /\ EmptyTables(PipelineThreads)
    /\ stages \in [ Tenants -> [ PipelineThreads -> { "new", "pending" } ] ]
    /\ messages \in [ Tenants -> [ PipelineThreads ->
                                    { <<>>, << MsgFromAl(1, 0) >>, << MsgFromAl(1, Null) >> } ] ]
    /\ profiles \in [ Tenants -> { AddrMe, None } ]
    /\ now = 1
    /\ tinput = <<>>
    /\ toutput = <<>>
    /\ pc = <<>>
    /\ loc = <<>>

NextWatermark ==
    \/ \E u \in Tenants, batch \in (SUBSET PipelineThreads) \ { {} } :
         \E modes \in [ batch -> TriggerModes ], llms \in [ batch -> PipelineLLM ] :
           Resolve(u, batch, modes, llms)
    \/ \E u \in Tenants, t \in PipelineThreads, llm \in PipelineLLM : RunJob(u, t, llm)
    \/ \E u \in Tenants, t \in PipelineThreads, llm \in AnalysisLLM : Analyze(u, t, llm)
    \/ \E u \in Tenants, t \in PipelineThreads, date \in ArrivalDates \cup { now } :
         Ingest(u, t, date)
    \/ Tick

SpecWatermark == InitWatermark /\ [][NextWatermark]_vars

\* C38: from a start where every thread has stage new or pending and no
\* last_analyzed_at, a thread whose stage is completed has a last_analyzed_at
C38_CompletedHasWatermark ==
    \A u \in DOMAIN stages : \A t \in DOMAIN stages[u] :
       stages[u][t] = "completed" => threads[u][t].last_analyzed_at # Null

\* C38 is exercised: a resolved thread was completed by a run that skipped, and
\* by a run whose answer held no field
C38_Witness ==
    /\ resolveRep.called
    /\ analyzeRep.called
    /\ stages[analyzeRep.user][analyzeRep.thread] = "completed"
    /\ AnalyzedThread.last_analyzed_at # Null
    /\ \/ analyzeRep.skipped
       \/ analyzeRep.llm_called /\ AnalyzedThread.summary = None

=============================================================================
